---- MODULE Spec2Model ----
(***************************************************************************)
(* Model of the mist time-stepping driver (include/mist/driver.hpp): the   *)
(* scheduled-output unit, the driver state, the run loop, the Runge-Kutta  *)
(* integrators and the timeseries accumulator.                             *)
(*                                                                         *)
(* Time is fixed-point: every configured time quantity (interval, Courant  *)
(* time, hence every dt and every next_time - t0) is an even number of     *)
(* ticks, so that the half-step stage times of the SSP-RK3 scheme are      *)
(* representable and the weighted averages of times are exact.             *)
(***************************************************************************)
EXTENDS Integers, Sequences, FiniteSets, TLC

VARIABLES
    cfg,                    \* config<P>: driver + physics configuration of the run
    pc,                     \* position inside run()
    session,                \* 1 = first session of the run, 2 = session after a restart
    state,                  \* the real simulation state (state_t)
    driver_state,           \* driver_state_t
    t0dt,                   \* the locals t0, dt, t1 of the current loop iteration
    last_message_iteration, \* session state
    last_message_wall_time, \* session state: the steady clock's reading at the last message
    log,                    \* callback invocations of this session, in order
    steps,                  \* the real steps of this session: [t0, dt] each
    chkpt,                  \* chkpt.NNNN files: number -> content
    prods,                  \* prods.NNNN files: number -> content
    err,                    \* the exception that left run(), "none" if none
    ref,                    \* result of the completed first session
    acc,                    \* accumulate_timeseries_sample harness: [data, prev, sample, n]
    call                    \* one call of a library function: its arguments and its result

vars == <<cfg, pc, session, state, driver_state, t0dt, last_message_iteration,
          last_message_wall_time,
          log, steps, chkpt, prods, err, ref, acc, call>>

-----------------------------------------------------------------------------
(* Bounds of the model *)

MaxVaried == 1      \* channels whose cadence differs from the default pattern
MaxTFinal == 8      \* largest t_final, in ticks
MaxIterCap == 2     \* the positive max_iter
MaxSamples == 2     \* samples merged by the accumulator harness
MaxSampleLen == 2   \* (name, value) pairs per sample in the harness
MaxRkU == 3         \* largest evolved quantity handed to an integrator in its harness
WordBits == 4       \* width of int and unsigned int in the indexing harness
MaxExtent == 4      \* largest extent of an axis of an index space
MaxRank == 2        \* most axes of an index space
MaxElems == 2       \* most elements of a std::vector in the archive harness
MaxWall == 1        \* largest reading of the steady clock, in clock ticks
MaxAuxKinds == 11   \* most auxiliary time kinds of a physics module
MantissaBits == 4   \* significant bits of a double in the floating-point harness
MaxGroupText == 5   \* longest text handed to the reader in the group harness

-----------------------------------------------------------------------------
(* Physics module, after examples/advection-1d: the state carries the raw  *)
(* time and one evolved quantity u; u doubles as the auxiliary clock of    *)
(* time kind 1.                                                            *)

\* run() takes its state from initial_state(cfg.physics) and from nowhere
\* else, so a session that resumes a checkpoint is handed the checkpointed
\* state through the physics configuration (phys.resume).
initial_state(phys) ==
    IF phys.resume.set THEN phys.resume.state ELSE [time |-> 0, u |-> phys.u0]

\* the model's state is a single zone
zone_count(s) == 1

euler_step(phys, s, dt) == [time |-> s.time + dt, u |-> s.u + dt * (1 + (s.u % 3))]

courant_time(phys, s) == IF phys.vary /\ s.u % 2 = 1 THEN 2 * phys.dx ELSE phys.dx

\* average(s1, s2, alpha) with alpha = num/den: (1 - alpha) * s1 + alpha * s2
average(s1, s2, num, den) ==
    [time |-> ((den - num) * s1.time + num * s2.time) \div den,
     u    |-> ((den - num) * s1.u + num * s2.u) \div den]

\* the time kinds of the physics module: the raw time, kind 0, and the
\* auxiliary clocks 1..aux_kinds; get_time throws std::out_of_range for any
\* other kind, which the callers model by testing the kind against this set
TimeKinds(phys) == 0..phys.aux_kinds

get_time(s, kind) == IF kind = 0 THEN s.time ELSE s.u

get_product(phys, s) == [total_mass |-> s.u, time |-> s.time]

timeseries_sample(phys, s) ==
    IF s.time >= phys.onset
    THEN <<(<<"time", s.time>>), (<<"mass", s.u>>), (<<"energy", s.u + 1>>)>>
    ELSE <<(<<"time", s.time>>), (<<"mass", s.u>>)>>

-----------------------------------------------------------------------------
(* Time integrators *)

rk1_step(phys, s0, dt) == euler_step(phys, s0, dt)

rk2_step(phys, s0, dt) ==
    LET s1 == euler_step(phys, s0, dt)
        s2 == euler_step(phys, s1, dt)
    IN  average(s0, s2, 1, 2)

\* mutant: the inner average of the third-order scheme weighs s2 by 3/4
rk3_step_inner_three_quarters(phys, s0, dt) ==
    LET s1 == euler_step(phys, s0, dt)
        s2 == euler_step(phys, s1, dt)
        s3 == euler_step(phys, average(s0, s2, 3, 4), dt)
    IN  average(s0, s3, 2, 3)

rk3_step(phys, s0, dt) ==
    LET s1 == euler_step(phys, s0, dt)
        s2 == euler_step(phys, s1, dt)
        s3 == euler_step(phys, average(s0, s2, 1, 4), dt)
    IN  average(s0, s3, 2, 3)

\* the rk_step lambda of run(): the orders it accepts, and what it returns
\* mutant: the default branch falls through to an integrator
rk_order_ok_any(c) == c.driver.rk_order \in {1, 2, 3, 4}

rk_order_ok(c) == c.driver.rk_order \in {1, 2, 3}

rk_step(c, s, dt) ==
    CASE c.driver.rk_order = 1 -> rk1_step(c.physics, s, dt)
      [] c.driver.rk_order = 2 -> rk2_step(c.physics, s, dt)
      [] OTHER                 -> rk3_step(c.physics, s, dt)

-----------------------------------------------------------------------------
(* Scheduled outputs *)

\* mutant: a string that names no policy is taken for the default, nearest
parse_scheduling_policy_lenient(str) ==
    IF str = "exact" THEN "exact" ELSE "nearest"

\* the enumerator the string names, or "runtime_error" where the code throws
parse_scheduling_policy(str) ==
    IF str = "exact" THEN "exact"
    ELSE IF str = "nearest" THEN "nearest"
    ELSE "runtime_error"

\* the std::array outputs of run(): message, checkpoint, products, timeseries.
\* next_time and count are the pointers into driver_state, held as field names.
outputs(c) ==
    << [interval |-> c.driver.message_interval,
        interval_kind |-> c.driver.message_interval_kind,
        policy |-> parse_scheduling_policy(c.driver.message_scheduling),
        next_time |-> "next_message_time", count |-> "message_count"],
       [interval |-> c.driver.checkpoint_interval,
        interval_kind |-> c.driver.checkpoint_interval_kind,
        policy |-> parse_scheduling_policy(c.driver.checkpoint_scheduling),
        next_time |-> "next_checkpoint_time", count |-> "checkpoint_count"],
       [interval |-> c.driver.products_interval,
        interval_kind |-> c.driver.products_interval_kind,
        policy |-> parse_scheduling_policy(c.driver.products_scheduling),
        next_time |-> "next_products_time", count |-> "products_count"],
       [interval |-> c.driver.timeseries_interval,
        interval_kind |-> c.driver.timeseries_interval_kind,
        policy |-> parse_scheduling_policy(c.driver.timeseries_scheduling),
        next_time |-> "next_timeseries_time", count |-> "timeseries_count"] >>

MESSAGE == 1
CHECKPOINT == 2
PRODUCTS == 3
TIMESERIES == 4
Channels == 1..4

\* mutant: the policy test is inverted
validate_nearest_only(out) == ~(out.policy = "nearest" /\ out.interval_kind # 0)

\* mutant: no combination of policy and time kind is refused
validate_anything(out) == TRUE

validate(out) == ~(out.policy = "exact" /\ out.interval_kind # 0)

-----------------------------------------------------------------------------
(* Driver state and the timeseries accumulator *)

driver_state_t ==
    [iteration |-> 0,
     message_count |-> 0, checkpoint_count |-> 0,
     products_count |-> 0, timeseries_count |-> 0,
     next_message_time |-> 0, next_checkpoint_time |-> 0,
     next_products_time |-> 0, next_timeseries_time |-> 0,
     timeseries_data |-> << >>]

\* std::find_if over the columns: index of the first column called name, 0 if none
RECURSIVE find_column(_, _, _)
find_column(data, name, i) ==
    IF i > Len(data) THEN 0
    ELSE IF data[i][1] = name THEN i
    ELSE find_column(data, name, i + 1)

\* mutant: the lookup result is ignored, every pair opens a column
accumulate_pair_new_column(data, pair) == Append(data, <<pair[1], <<pair[2]>> >>)

accumulate_pair(data, pair) ==
    LET it == find_column(data, pair[1], 1)
    IN  IF it # 0
        THEN [data EXCEPT ![it] = <<@[1], Append(@[2], pair[2])>>]
        ELSE Append(data, <<pair[1], <<pair[2]>> >>)

RECURSIVE accumulate_timeseries_sample(_, _)
accumulate_timeseries_sample(data, sample) ==
    IF sample = << >> THEN data
    ELSE accumulate_timeseries_sample(accumulate_pair(data, Head(sample)), Tail(sample))

-----------------------------------------------------------------------------
(* The callbacks.  A context x carries what a callback can change:         *)
(* driver_state, the session state, the files, the log and a pending       *)
(* exception.                                                              *)

Event(x, i, how, s, trig) ==
    [chan |-> i, how |-> how, state |-> s, trig |-> trig, ds |-> x.ds, mzps |-> 0,
     kinds |-> << >>]

\* the last kind the message callback probes: for (int kind = 1; kind <= 10; ++kind)
LastProbedKind == 10

\* the auxiliary time kinds a message reports: the loop of the callback tries
\* get_time(s, kind) for kind = 1, 2, ... and leaves at the first kind that
\* throws std::out_of_range, which it catches, or after LastProbedKind
RECURSIVE message_time_kinds(_, _)
message_time_kinds(phys, kind) ==
    IF kind <= LastProbedKind
    THEN IF kind \in TimeKinds(phys)
         THEN <<kind>> \o message_time_kinds(phys, kind + 1)
         ELSE << >>
    ELSE << >>

\* std::chrono::steady_clock: a reading is never below an earlier one.  run()
\* stores every reading it takes in last_message_wall_time, so the readings
\* the next call can return are those from the stored one on.
get_wall_time(last) == last..MaxWall

\* the throughput figure of the message, (iter_elapsed * zone_count) /
\* (wall_elapsed * 1e6), in zone updates per clock tick, rounded down
message_mzps(x, s) ==
    LET wall_elapsed == x.wall_now - x.lmw
        iter_elapsed == x.ds.iteration - x.lmi
    IN  IF wall_elapsed > 0 THEN (iter_elapsed * zone_count(s)) \div wall_elapsed ELSE 0

\* mutant: no message is written while the clock stands still
callback_paced_by_clock(c, x, i, how, s, trig) ==
    LET logged == [x EXCEPT !.log = Append(@, Event(x, i, how, s, trig))]
    IN  CASE i = MESSAGE ->
               IF x.wall_now - x.lmw > 0
               THEN [logged EXCEPT !.log[Len(logged.log)].mzps = message_mzps(x, s),
                              !.log[Len(logged.log)].kinds = message_time_kinds(c.physics, 1),
                                   !.lmw = x.wall_now,
                                   !.lmi = x.ds.iteration]
               ELSE x
          [] i = CHECKPOINT ->
               [logged EXCEPT !.chkpt =
                   (x.ds.checkpoint_count :> [state |-> s, driver_state |-> x.ds]) @@ @]
          [] i = PRODUCTS ->
               [logged EXCEPT !.prods =
                   (x.ds.products_count :> get_product(c.physics, s)) @@ @]
          [] OTHER ->
               [logged EXCEPT !.ds.timeseries_data =
                   accumulate_timeseries_sample(@, timeseries_sample(c.physics, s))]

\* mutant: the checkpoint and product files are numbered by the iteration
callback_numbered_by_iteration(c, x, i, how, s, trig) ==
    LET logged == [x EXCEPT !.log = Append(@, Event(x, i, how, s, trig))]
    IN  CASE i = MESSAGE ->
               [logged EXCEPT !.log[Len(logged.log)].mzps = message_mzps(x, s),
                              !.log[Len(logged.log)].kinds = message_time_kinds(c.physics, 1),
                              !.lmw = x.wall_now,
                              !.lmi = x.ds.iteration]
          [] i = CHECKPOINT ->
               [logged EXCEPT !.chkpt =
                   (x.ds.iteration :> [state |-> s, driver_state |-> x.ds]) @@ @]
          [] i = PRODUCTS ->
               [logged EXCEPT !.prods =
                   (x.ds.iteration :> get_product(c.physics, s)) @@ @]
          [] OTHER ->
               [logged EXCEPT !.ds.timeseries_data =
                   accumulate_timeseries_sample(@, timeseries_sample(c.physics, s))]

callback(c, x, i, how, s, trig) ==
    LET logged == [x EXCEPT !.log = Append(@, Event(x, i, how, s, trig))]
    IN  CASE i = MESSAGE ->
               [logged EXCEPT !.log[Len(logged.log)].mzps = message_mzps(x, s),
                              !.log[Len(logged.log)].kinds = message_time_kinds(c.physics, 1),
                              !.lmw = x.wall_now,
                              !.lmi = x.ds.iteration]
          [] i = CHECKPOINT ->
               [logged EXCEPT !.chkpt =
                   (x.ds.checkpoint_count :> [state |-> s, driver_state |-> x.ds]) @@ @]
          [] i = PRODUCTS ->
               [logged EXCEPT !.prods =
                   (x.ds.products_count :> get_product(c.physics, s)) @@ @]
          [] OTHER ->
               [logged EXCEPT !.ds.timeseries_data =
                   accumulate_timeseries_sample(@, timeseries_sample(c.physics, s))]

\* mutant: the callback runs before count and next_time are updated
fire_callback_first(c, x, i, how, s) ==
    LET out  == outputs(c)[i]
        trig == x.ds[out.next_time]
        x1   == callback(c, x, i, how, s, trig)
        x2   == [x1 EXCEPT !.ds[out.count] = @ + 1]
    IN  [x2 EXCEPT !.ds[out.next_time] = @ + out.interval]

\* mutant: next_time moves to the first multiple of the interval past the
\* raw time of the state handed to the callback
fire_to_next_multiple(c, x, i, how, s) ==
    LET out  == outputs(c)[i]
        trig == x.ds[out.next_time]
        x1   == [x EXCEPT !.ds[out.count] = @ + 1]
        x2   == [x1 EXCEPT !.ds[out.next_time] =
                    out.interval * ((get_time(s, 0) \div out.interval) + 1)]
    IN  callback(c, x2, i, how, s, trig)

\* count++, next_time += interval, then the callback
fire(c, x, i, how, s) ==
    LET out  == outputs(c)[i]
        trig == x.ds[out.next_time]
        x1   == [x EXCEPT !.ds[out.count] = @ + 1]
        x2   == [x1 EXCEPT !.ds[out.next_time] = @ + out.interval]
    IN  callback(c, x2, i, how, s, trig)

\* mutant: the interpolation advances by the whole step
handle_exact_output_whole_step(c, x, i, t0, t1, s) ==
    LET out == outputs(c)[i]
    IN  IF x.err # "none" THEN x
        ELSE IF out.policy = "exact" /\ out.interval_kind = 0
                /\ t0 < x.ds[out.next_time] /\ t1 >= x.ds[out.next_time]
        THEN IF rk_order_ok(c)
             THEN fire(c, x, i, "exact", rk_step(c, s, t1 - t0))
             ELSE [x EXCEPT !.err = "rk_order"]
        ELSE x

\* mutant: the upper test is strict, t1 > next_time
handle_exact_output_strict(c, x, i, t0, t1, s) ==
    LET out == outputs(c)[i]
    IN  IF x.err # "none" THEN x
        ELSE IF out.policy = "exact" /\ out.interval_kind = 0
                /\ t0 < x.ds[out.next_time] /\ t1 > x.ds[out.next_time]
        THEN IF rk_order_ok(c)
             THEN fire(c, x, i, "exact", rk_step(c, s, x.ds[out.next_time] - t0))
             ELSE [x EXCEPT !.err = "rk_order"]
        ELSE x

\* mutant: the lower test is not strict, t0 <= next_time
handle_exact_output_from_t0(c, x, i, t0, t1, s) ==
    LET out == outputs(c)[i]
    IN  IF x.err # "none" THEN x
        ELSE IF out.policy = "exact" /\ out.interval_kind = 0
                /\ t0 <= x.ds[out.next_time] /\ t1 >= x.ds[out.next_time]
        THEN IF rk_order_ok(c)
             THEN fire(c, x, i, "exact", rk_step(c, s, x.ds[out.next_time] - t0))
             ELSE [x EXCEPT !.err = "rk_order"]
        ELSE x

\* mutant: every channel interpolates to the next timeseries output time
handle_exact_output_timeseries_target(c, x, i, t0, t1, s) ==
    LET out == outputs(c)[i]
    IN  IF x.err # "none" THEN x
        ELSE IF out.policy = "exact" /\ out.interval_kind = 0
                /\ t0 < x.ds[out.next_time] /\ t1 >= x.ds[out.next_time]
        THEN IF rk_order_ok(c)
             THEN fire(c, x, i, "exact", rk_step(c, s, x.ds.next_timeseries_time - t0))
             ELSE [x EXCEPT !.err = "rk_order"]
        ELSE x

\* mutant: an output time the run has already passed is caught up with
handle_exact_output_overdue(c, x, i, t0, t1, s) ==
    LET out == outputs(c)[i]
    IN  IF x.err # "none" THEN x
        ELSE IF out.policy = "exact" /\ out.interval_kind = 0
                /\ t1 >= x.ds[out.next_time]
        THEN IF rk_order_ok(c)
             THEN fire(c, x, i, "exact",
                       IF t0 < x.ds[out.next_time]
                       THEN rk_step(c, s, x.ds[out.next_time] - t0) ELSE s)
             ELSE [x EXCEPT !.err = "rk_order"]
        ELSE x

handle_exact_output(c, x, i, t0, t1, s) ==
    LET out == outputs(c)[i]
    IN  IF x.err # "none" THEN x
        ELSE IF out.policy = "exact" /\ out.interval_kind = 0
                /\ t0 < x.ds[out.next_time] /\ t1 >= x.ds[out.next_time]
        THEN IF rk_order_ok(c)
             THEN fire(c, x, i, "exact", rk_step(c, s, x.ds[out.next_time] - t0))
             ELSE [x EXCEPT !.err = "rk_order"]
        ELSE x

\* mutant: the test is strict, time > next_time
handle_nearest_output_strict(c, x, i, s) ==
    LET out == outputs(c)[i]
    IN  IF x.err # "none" THEN x
        ELSE IF out.policy = "nearest"
        THEN IF out.interval_kind \notin TimeKinds(c.physics)
             THEN [x EXCEPT !.err = "out_of_range"]
             ELSE IF get_time(s, out.interval_kind) > x.ds[out.next_time]
                  THEN fire(c, x, i, "nearest", s)
                  ELSE x
        ELSE x

\* mutant: the test reads the raw time whatever the channel's time kind is
handle_nearest_output_raw_time(c, x, i, s) ==
    LET out == outputs(c)[i]
    IN  IF x.err # "none" THEN x
        ELSE IF out.policy = "nearest"
        THEN IF out.interval_kind \notin TimeKinds(c.physics)
             THEN [x EXCEPT !.err = "out_of_range"]
             ELSE IF get_time(s, 0) >= x.ds[out.next_time]
                  THEN fire(c, x, i, "nearest", s)
                  ELSE x
        ELSE x

\* mutant: a triggered channel goes on firing until next_time is ahead
RECURSIVE handle_nearest_output_catching_up(_, _, _, _)
handle_nearest_output_catching_up(c, x, i, s) ==
    LET out == outputs(c)[i]
    IN  IF x.err # "none" THEN x
        ELSE IF out.policy = "nearest"
        THEN IF out.interval_kind \notin TimeKinds(c.physics)
             THEN [x EXCEPT !.err = "out_of_range"]
             ELSE IF get_time(s, out.interval_kind) >= x.ds[out.next_time]
                  THEN handle_nearest_output_catching_up(c, fire(c, x, i, "nearest", s), i, s)
                  ELSE x
        ELSE x

\* mutant: a channel on a time kind the physics does not have never fires
handle_nearest_output_skips_unknown_kind(c, x, i, s) ==
    LET out == outputs(c)[i]
    IN  IF x.err # "none" THEN x
        ELSE IF out.policy = "nearest"
        THEN IF out.interval_kind \notin TimeKinds(c.physics)
             THEN x
             ELSE IF get_time(s, out.interval_kind) >= x.ds[out.next_time]
                  THEN fire(c, x, i, "nearest", s)
                  ELSE x
        ELSE x

handle_nearest_output(c, x, i, s) ==
    LET out == outputs(c)[i]
    IN  IF x.err # "none" THEN x
        ELSE IF out.policy = "nearest"
        THEN IF out.interval_kind \notin TimeKinds(c.physics)
             THEN [x EXCEPT !.err = "out_of_range"]
             ELSE IF get_time(s, out.interval_kind) >= x.ds[out.next_time]
                  THEN fire(c, x, i, "nearest", s)
                  ELSE x
        ELSE x

\* wall_now is the reading get_wall_time() returns to the message callback
Ctx == [ds |-> driver_state, lmi |-> last_message_iteration,
        lmw |-> last_message_wall_time, wall_now |-> last_message_wall_time,
        log |-> log, chkpt |-> chkpt, prods |-> prods, err |-> "none"]

Commit(x) ==
    /\ driver_state' = x.ds
    /\ last_message_iteration' = x.lmi
    /\ last_message_wall_time' = x.lmw
    /\ log' = x.log
    /\ chkpt' = x.chkpt
    /\ prods' = x.prods

-----------------------------------------------------------------------------
(* run(cfg, driver_state).  The context is threaded through the handlers    *)
(* as a bound value (\E x \in {e}), so that each handler's result is         *)
(* computed once.                                                          *)

NoLocals == [t0 |-> 0, dt |-> 0, t1 |-> 0]

\* mutant: the first-run scheduling is left out, next_time stays 0
RunEnter_unscheduled ==
    /\ pc = "enter"
    /\ state' = initial_state(cfg.physics)
    /\ driver_state' = driver_state
    /\ last_message_wall_time' \in get_wall_time(last_message_wall_time)
    /\ last_message_iteration' = driver_state.iteration
    /\ pc' = "validate"
    /\ UNCHANGED <<cfg, session, t0dt, log, steps, chkpt, prods, err, ref, acc, call>>

\* entry of run(): initial state, first-run scheduling, session state
RunEnter ==
    /\ pc = "enter"
    /\ state' = initial_state(cfg.physics)
    /\ driver_state' =
          IF driver_state.iteration = 0
          THEN [driver_state EXCEPT
                   !.next_message_time = cfg.driver.message_interval,
                   !.next_checkpoint_time = cfg.driver.checkpoint_interval,
                   !.next_products_time = cfg.driver.products_interval,
                   !.next_timeseries_time = cfg.driver.timeseries_interval]
          ELSE driver_state
    /\ last_message_wall_time' \in get_wall_time(last_message_wall_time)
    /\ last_message_iteration' = driver_state.iteration
    /\ pc' = "validate"
    /\ UNCHANGED <<cfg, session, t0dt, log, steps, chkpt, prods, err, ref, acc, call>>

\* the four scheduled_output objects are built, each parsing its policy
\* string, then: for (auto& output : outputs) output.validate();
RunValidate ==
    /\ pc = "validate"
    /\ IF \E i \in Channels : outputs(cfg)[i].policy = "runtime_error"
       THEN pc' = "error" /\ err' = "scheduling_policy"
       ELSE IF \A i \in Channels : validate(outputs(cfg)[i])
       THEN pc' = "initial" /\ err' = err
       ELSE pc' = "error" /\ err' = "validate"
    /\ UNCHANGED <<cfg, session, state, driver_state, t0dt, last_message_iteration, last_message_wall_time,
                   log, steps, chkpt, prods, ref, acc, call>>

\* mutant: the t=0 outputs are fired whatever the iteration is
RunInitialOutputs_always ==
    /\ pc = "initial"
    /\ LET x2 == callback(cfg, Ctx, CHECKPOINT, "initial", state, -1)
           x3 == callback(cfg, x2, PRODUCTS, "initial", state, -1)
           x4 == callback(cfg, x3, TIMESERIES, "initial", state, -1)
       IN  Commit(x4)
    /\ pc' = "loop"
    /\ UNCHANGED <<cfg, session, state, t0dt, steps, err, ref, acc, call>>

\* mutant: the t=0 pass starts at outputs[0], the message channel
RunInitialOutputs_with_message ==
    /\ pc = "initial"
    /\ IF driver_state.iteration = 0
       THEN LET x1 == callback(cfg, Ctx, MESSAGE, "initial", state, -1)
                x2 == callback(cfg, x1, CHECKPOINT, "initial", state, -1)
                x3 == callback(cfg, x2, PRODUCTS, "initial", state, -1)
                x4 == callback(cfg, x3, TIMESERIES, "initial", state, -1)
            IN  Commit(x4)
       ELSE Commit(Ctx)
    /\ pc' = "loop"
    /\ UNCHANGED <<cfg, session, state, t0dt, steps, err, ref, acc, call>>

\* mutant: the t=0 pass stops before the last channel, timeseries
RunInitialOutputs_without_timeseries ==
    /\ pc = "initial"
    /\ IF driver_state.iteration = 0
       THEN \E x1 \in {Ctx} :
            \E x2 \in {callback(cfg, x1, CHECKPOINT, "initial", state, -1)} :
            \E x3 \in {callback(cfg, x2, PRODUCTS, "initial", state, -1)} :
                Commit(x3)
       ELSE Commit(Ctx)
    /\ pc' = "loop"
    /\ UNCHANGED <<cfg, session, state, t0dt, steps, err, ref, acc, call>>

\* initial outputs at t=0: the callbacks of outputs[1..3], not the message one
RunInitialOutputs ==
    /\ pc = "initial"
    /\ IF driver_state.iteration = 0
       THEN \E x1 \in {Ctx} :
            \E x2 \in {callback(cfg, x1, CHECKPOINT, "initial", state, -1)} :
            \E x3 \in {callback(cfg, x2, PRODUCTS, "initial", state, -1)} :
            \E x4 \in {callback(cfg, x3, TIMESERIES, "initial", state, -1)} :
                Commit(x4)
       ELSE Commit(Ctx)
    /\ pc' = "loop"
    /\ UNCHANGED <<cfg, session, state, t0dt, steps, err, ref, acc, call>>

\* mutant: the iteration cap is tested with > instead of >=
loop_break_late(c, ds, t0) ==
    \/ t0 >= c.driver.t_final
    \/ (c.driver.max_iter > 0 /\ ds.iteration > c.driver.max_iter)

\* mutant: max_iter = 0 counts as a cap of zero steps
loop_break_cap_zero(c, ds, t0) ==
    \/ t0 >= c.driver.t_final
    \/ (c.driver.max_iter >= 0 /\ ds.iteration >= c.driver.max_iter)

\* top of the loop: the two break tests, then dt and t1
loop_break(c, ds, t0) ==
    \/ t0 >= c.driver.t_final
    \/ (c.driver.max_iter > 0 /\ ds.iteration >= c.driver.max_iter)

RunLoopTop ==
    /\ pc = "loop"
    /\ LET t0 == get_time(state, 0)
           dt == cfg.driver.cfl * courant_time(cfg.physics, state)
       IN  IF loop_break(cfg, driver_state, t0)
           THEN /\ pc' = "done"
                /\ t0dt' = [t0 |-> t0, dt |-> 0, t1 |-> t0]
                /\ ref' = IF session = 1
                          THEN [set |-> TRUE, state |-> state, driver_state |-> driver_state]
                          ELSE ref
           ELSE /\ pc' = "exact"
                /\ t0dt' = [t0 |-> t0, dt |-> dt, t1 |-> t0 + dt]
                /\ ref' = ref
    /\ UNCHANGED <<cfg, session, state, driver_state, last_message_iteration, last_message_wall_time,
                   log, steps, chkpt, prods, err, acc, call>>

\* for (auto& output : outputs) output.handle_exact_output(t0, t1, state, rk_step);
RunExactOutputs ==
    /\ pc = "exact"
    /\ \E wall_now \in get_wall_time(last_message_wall_time) :
       \E x0 \in {[Ctx EXCEPT !.wall_now = wall_now]} :
       \E x1 \in {handle_exact_output(cfg, x0, 1, t0dt.t0, t0dt.t1, state)} :
       \E x2 \in {handle_exact_output(cfg, x1, 2, t0dt.t0, t0dt.t1, state)} :
       \E x3 \in {handle_exact_output(cfg, x2, 3, t0dt.t0, t0dt.t1, state)} :
       \E x4 \in {handle_exact_output(cfg, x3, 4, t0dt.t0, t0dt.t1, state)} :
           /\ Commit(x4)
           /\ err' = x4.err
           /\ pc' = IF x4.err = "none" THEN "step" ELSE "error"
    /\ UNCHANGED <<cfg, session, state, t0dt, steps, ref, acc, call>>

\* mutant: the real step is cut short to land on the next products output
RunStep_clipped ==
    /\ pc = "step"
    /\ rk_order_ok(cfg)
    /\ LET gap == driver_state.next_products_time - t0dt.t0
           dt  == IF 0 < gap /\ gap < t0dt.dt THEN gap ELSE t0dt.dt
       IN  /\ state' = rk_step(cfg, state, dt)
           /\ steps' = Append(steps, [t0 |-> t0dt.t0, dt |-> dt])
    /\ driver_state' = [driver_state EXCEPT !.iteration = @ + 1]
    /\ pc' = "nearest"
    /\ UNCHANGED <<cfg, session, t0dt, last_message_iteration, last_message_wall_time, log, chkpt, prods,
                   err, ref, acc, call>>

\* mutant: the last step is shortened to land on t_final
RunStep_lands_on_t_final ==
    /\ pc = "step"
    /\ rk_order_ok(cfg)
    /\ LET gap == cfg.driver.t_final - t0dt.t0
           dt  == IF gap < t0dt.dt THEN gap ELSE t0dt.dt
       IN  /\ state' = rk_step(cfg, state, dt)
           /\ steps' = Append(steps, [t0 |-> t0dt.t0, dt |-> dt])
    /\ driver_state' = [driver_state EXCEPT !.iteration = @ + 1]
    /\ pc' = "nearest"
    /\ UNCHANGED <<cfg, session, t0dt, last_message_iteration, last_message_wall_time,
                   log, chkpt, prods, err, ref, acc, call>>

\* state = rk_step(state, dt); driver_state.iteration++;
RunStep ==
    /\ pc = "step"
    /\ IF rk_order_ok(cfg)
       THEN /\ state' = rk_step(cfg, state, t0dt.dt)
            /\ driver_state' = [driver_state EXCEPT !.iteration = @ + 1]
            /\ steps' = Append(steps, [t0 |-> t0dt.t0, dt |-> t0dt.dt])
            /\ pc' = "nearest"
            /\ err' = err
       ELSE /\ pc' = "error"
            /\ err' = "rk_order"
            /\ UNCHANGED <<state, driver_state, steps>>
    /\ UNCHANGED <<cfg, session, t0dt, last_message_iteration, last_message_wall_time, log, chkpt, prods, ref, acc, call>>

\* mutant: the nearest evaluation walks the channels from the last to the first
RunNearestOutputs_reversed ==
    /\ pc = "nearest"
    /\ \E wall_now \in get_wall_time(last_message_wall_time) :
       \E x0 \in {[Ctx EXCEPT !.wall_now = wall_now]} :
       \E x1 \in {handle_nearest_output(cfg, x0, 4, state)} :
       \E x2 \in {handle_nearest_output(cfg, x1, 3, state)} :
       \E x3 \in {handle_nearest_output(cfg, x2, 2, state)} :
       \E x4 \in {handle_nearest_output(cfg, x3, 1, state)} :
           /\ Commit(x4)
           /\ err' = x4.err
           /\ pc' = IF x4.err = "none" THEN "loop" ELSE "error"
    /\ UNCHANGED <<cfg, session, state, t0dt, steps, ref, acc, call>>

\* mutant: the checkpoint channel is evaluated after products and timeseries
RunNearestOutputs_checkpoint_last ==
    /\ pc = "nearest"
    /\ \E wall_now \in get_wall_time(last_message_wall_time) :
       \E x0 \in {[Ctx EXCEPT !.wall_now = wall_now]} :
       \E x1 \in {handle_nearest_output(cfg, x0, 1, state)} :
       \E x2 \in {handle_nearest_output(cfg, x1, 3, state)} :
       \E x3 \in {handle_nearest_output(cfg, x2, 4, state)} :
       \E x4 \in {handle_nearest_output(cfg, x3, 2, state)} :
           /\ Commit(x4)
           /\ err' = x4.err
           /\ pc' = IF x4.err = "none" THEN "loop" ELSE "error"
    /\ UNCHANGED <<cfg, session, state, t0dt, steps, ref, acc, call>>

\* for (auto& output : outputs) output.handle_nearest_output(state, get_time);
RunNearestOutputs ==
    /\ pc = "nearest"
    /\ \E wall_now \in get_wall_time(last_message_wall_time) :
       \E x0 \in {[Ctx EXCEPT !.wall_now = wall_now]} :
       \E x1 \in {handle_nearest_output(cfg, x0, 1, state)} :
       \E x2 \in {handle_nearest_output(cfg, x1, 2, state)} :
       \E x3 \in {handle_nearest_output(cfg, x2, 3, state)} :
       \E x4 \in {handle_nearest_output(cfg, x3, 4, state)} :
           /\ Commit(x4)
           /\ err' = x4.err
           /\ pc' = IF x4.err = "none" THEN "loop" ELSE "error"
    /\ UNCHANGED <<cfg, session, state, t0dt, steps, ref, acc, call>>

-----------------------------------------------------------------------------
(* Configurations *)

Intervals == {2, 4}
Policies == {"nearest", "exact"}
OutputSpecs == [interval : Intervals, kind : 0..1, policy : Policies]

\* the shipped cadence pattern of driver::config_t: message and checkpoint
\* nearest, products and timeseries exact, all on raw time
DefaultSpecs ==
    << [interval |-> 2, kind |-> 0, policy |-> "nearest"],
       [interval |-> 4, kind |-> 0, policy |-> "nearest"],
       [interval |-> 4, kind |-> 0, policy |-> "exact"],
       [interval |-> 2, kind |-> 0, policy |-> "exact"] >>

SpecTuples ==
    {q \in [Channels -> OutputSpecs] :
        Cardinality({i \in Channels : q[i] # DefaultSpecs[i]}) <= MaxVaried}

driver_config(q, rk, cfl, term) ==
    [rk_order |-> rk, cfl |-> cfl, t_final |-> term.t_final, max_iter |-> term.max_iter,
     message_interval |-> q[1].interval,
     message_interval_kind |-> q[1].kind,
     message_scheduling |-> q[1].policy,
     checkpoint_interval |-> q[2].interval,
     checkpoint_interval_kind |-> q[2].kind,
     checkpoint_scheduling |-> q[2].policy,
     products_interval |-> q[3].interval,
     products_interval_kind |-> q[3].kind,
     products_scheduling |-> q[3].policy,
     timeseries_interval |-> q[4].interval,
     timeseries_interval_kind |-> q[4].kind,
     timeseries_scheduling |-> q[4].policy]

RkOrders == {1, 2, 3, 4}
Cfls == {1, 2}
\* no iteration cap (max_iter = -1, the default) with t_final 0, 5 and
\* MaxTFinal, and max_iter = 0 and a cap of MaxIterCap steps with
\* t_final = MaxTFinal
Terminations ==
    {[t_final |-> tf, max_iter |-> -1] : tf \in {0, 5, MaxTFinal}}
    \cup {[t_final |-> MaxTFinal, max_iter |-> m] : m \in {0, MaxIterCap}}

NoResume == [set |-> FALSE, state |-> [time |-> 0, u |-> 0]]
PhysConfigs ==
    [dx : {2}, vary : BOOLEAN, u0 : {1}, onset : {4}, aux_kinds : {1}, resume : {NoResume}]

Configs ==
    {[driver |-> driver_config(q, rk, cfl, term), physics |-> ph] :
        q \in SpecTuples, rk \in RkOrders, cfl \in Cfls,
        term \in Terminations, ph \in PhysConfigs}

NoRef == [set |-> FALSE, state |-> [time |-> 0, u |-> 0], driver_state |-> driver_state_t]
NoAcc == [data |-> << >>, prev |-> << >>, sample |-> << >>, n |-> 0]
NoCall == [done |-> FALSE]

\* wall is the steady clock's reading when the program starts; from MaxWall
\* on the clock is too coarse to advance while the run lasts
InitRun(c, wall) ==
    /\ cfg = c
    /\ pc = "enter"
    /\ session = 1
    /\ state = initial_state(c.physics)
    /\ driver_state = driver_state_t
    /\ t0dt = NoLocals
    /\ last_message_iteration = 0
    /\ last_message_wall_time = wall
    /\ log = << >>
    /\ steps = << >>
    /\ chkpt = << >>
    /\ prods = << >>
    /\ err = "none"
    /\ ref = NoRef
    /\ acc = NoAcc
    /\ call = NoCall

Init == \E c \in Configs : InitRun(c, MaxWall)

Next ==
    \/ RunEnter
    \/ RunValidate
    \/ RunInitialOutputs
    \/ RunLoopTop
    \/ RunExactOutputs
    \/ RunStep
    \/ RunNearestOutputs

Spec == Init /\ [][Next]_vars

-----------------------------------------------------------------------------
(* Restart: a second session of the same run.  The first session has ended; *)
(* the caller restores driver_state from one of the checkpoint files the    *)
(* first session wrote and calls run(cfg, driver_state) again.  resume      *)
(* says whether the physics configuration hands the checkpointed state to   *)
(* initial_state, or is the configuration of the first session unchanged.   *)

Restart ==
    /\ pc = "done"
    /\ session = 1
    /\ \E n \in DOMAIN chkpt, resume \in BOOLEAN :
          /\ driver_state' = chkpt[n].driver_state
          /\ cfg' = IF resume
                    THEN [cfg EXCEPT !.physics.resume =
                             [set |-> TRUE, state |-> chkpt[n].state]]
                    ELSE cfg
    /\ session' = 2
    /\ pc' = "enter"
    /\ t0dt' = NoLocals
    /\ log' = << >>
    /\ steps' = << >>
    /\ UNCHANGED <<state, last_message_iteration, last_message_wall_time, chkpt, prods, err, ref, acc, call>>

RestartConfigs ==
    {c \in Configs : c.driver.rk_order = 2 /\ ~c.physics.vary}

InitRestart == \E c \in RestartConfigs : InitRun(c, MaxWall)

NextRestart == Next \/ Restart

SpecRestart == InitRestart /\ [][NextRestart]_vars

-----------------------------------------------------------------------------
(* Runs under a steady clock that advances: the program starts at reading  *)
(* 0, and every later reading is any one from the last reading to MaxWall. *)
(* Second order, both step-size patterns, every cadence of the message     *)
(* channel.                                                                *)

ClockConfigs ==
    LET ClockSpecs == {q \in SpecTuples :
                          \A i \in Channels \ {MESSAGE} : q[i] = DefaultSpecs[i]}
    IN  {[driver |-> driver_config(q, 2, cfl, term), physics |-> ph] :
            q \in ClockSpecs, cfl \in Cfls, term \in Terminations, ph \in PhysConfigs}

InitClock == \E c \in ClockConfigs : InitRun(c, 0)

SpecClock == InitClock /\ [][Next]_vars

-----------------------------------------------------------------------------
(* Runs with other physics modules: one that has no auxiliary clock (as     *)
(* examples/advection-1d), one with a single auxiliary clock, one with      *)
(* MaxAuxKinds of them; with columns that are the same in every timeseries  *)
(* sample (onset 0) or that gain one during the run.  Second order, cfl 1.  *)

\* the shipped cadence pattern with one channel's policy misspelt
UnknownPolicyTuples ==
    {[i \in Channels |->
         IF i = k THEN [DefaultSpecs[i] EXCEPT !.policy = "hourly"] ELSE DefaultSpecs[i]] :
        k \in Channels}

PhysicsConfigs ==
    {[driver |-> driver_config(q, 2, 1, term), physics |-> ph] :
        q \in SpecTuples \cup UnknownPolicyTuples, term \in Terminations,
        ph \in [dx : {2}, vary : {FALSE}, u0 : {1}, onset : {0, 4},
                aux_kinds : {0, 1, MaxAuxKinds}, resume : {NoResume}]}

InitPhysics == \E c \in PhysicsConfigs : InitRun(c, MaxWall)

SpecPhysics == InitPhysics /\ [][Next]_vars

-----------------------------------------------------------------------------
(* Progress: run() is a single synchronous thread with no suspension point, *)
(* so a session that can take a step of run() takes it.  Whether the caller *)
(* starts a second session is left open.                                    *)

\* second order, cfl 1, both step-size patterns of the physics, every
\* termination setting, and every cadence of the checkpoint channel
LiveSpecs ==
    {q \in SpecTuples : \A i \in Channels \ {CHECKPOINT} : q[i] = DefaultSpecs[i]}

LiveConfigs ==
    {[driver |-> driver_config(q, 2, 1, term), physics |-> ph] :
        q \in LiveSpecs, term \in Terminations, ph \in PhysConfigs}

InitLive == \E c \in LiveConfigs : InitRun(c, MaxWall)

SpecLive == InitLive /\ [][NextRestart]_vars /\ WF_vars(Next)

-----------------------------------------------------------------------------
(* Harness for accumulate_timeseries_sample: samples drawn from a bounded   *)
(* set are merged one after the other into an initially empty column set.   *)

ColumnNames == {"mass", "energy"}
SampleValues == {1, 2}
Pairs == {<<n, v>> : n \in ColumnNames, v \in SampleValues}
RECURSIVE SeqsUpTo(_, _)
SeqsUpTo(S, n) ==
    IF n = 0 THEN {<< >>}
    ELSE LET shorter == SeqsUpTo(S, n - 1)
         IN  shorter \cup {Append(q, e) : q \in shorter, e \in S}
Samples == SeqsUpTo(Pairs, MaxSampleLen)

Accumulate ==
    /\ pc = "harness"
    /\ acc.n < MaxSamples
    /\ \E sample \in Samples :
          acc' = [data |-> accumulate_timeseries_sample(acc.data, sample),
                  prev |-> acc.data, sample |-> sample, n |-> acc.n + 1]
    /\ UNCHANGED <<cfg, pc, session, state, driver_state, t0dt, last_message_iteration, last_message_wall_time,
                   log, steps, chkpt, prods, err, ref, call>>

InitAcc ==
    /\ cfg = CHOOSE c \in Configs : TRUE
    /\ pc = "harness"
    /\ session = 1
    /\ state = initial_state(cfg.physics)
    /\ driver_state = driver_state_t
    /\ t0dt = NoLocals
    /\ last_message_iteration = 0
    /\ last_message_wall_time = 0
    /\ log = << >>
    /\ steps = << >>
    /\ chkpt = << >>
    /\ prods = << >>
    /\ err = "none"
    /\ ref = NoRef
    /\ acc = NoAcc
    /\ call = NoCall

NextAcc == Accumulate

SpecAcc == InitAcc /\ [][NextAcc]_vars

-----------------------------------------------------------------------------
(* Harness for the integrators: one call of the rk_step lambda of run() on  *)
(* a state and a step size drawn from bounded sets.  The calls an           *)
(* integrator makes to the physics are listed in program order, each with   *)
(* its arguments and its result.                                            *)

EulerCall(phys, s, dt) ==
    [fn |-> "euler_step", a |-> s, b |-> s, dt |-> dt, num |-> 0, den |-> 1,
     out |-> euler_step(phys, s, dt)]

AverageCall(s1, s2, num, den) ==
    [fn |-> "average", a |-> s1, b |-> s2, dt |-> 0, num |-> num, den |-> den,
     out |-> average(s1, s2, num, den)]

rk1_calls(phys, s0, dt) == << EulerCall(phys, s0, dt) >>

rk2_calls(phys, s0, dt) ==
    LET c1 == EulerCall(phys, s0, dt)
        c2 == EulerCall(phys, c1.out, dt)
    IN  << c1, c2, AverageCall(s0, c2.out, 1, 2) >>

rk3_calls(phys, s0, dt) ==
    LET c1 == EulerCall(phys, s0, dt)
        c2 == EulerCall(phys, c1.out, dt)
        c3 == AverageCall(s0, c2.out, 1, 4)
        c4 == EulerCall(phys, c3.out, dt)
    IN  << c1, c2, c3, c4, AverageCall(s0, c4.out, 2, 3) >>

rk_calls(c, s, dt) ==
    CASE c.driver.rk_order = 1 -> rk1_calls(c.physics, s, dt)
      [] c.driver.rk_order = 2 -> rk2_calls(c.physics, s, dt)
      [] OTHER                 -> rk3_calls(c.physics, s, dt)

RkStates == [time : {0, 2}, u : 0..MaxRkU]
RkSteps == {2, 4}

RkConfigs ==
    {[driver |-> driver_config(DefaultSpecs, rk, 1, [t_final |-> MaxTFinal, max_iter |-> -1]),
      physics |-> ph] : rk \in RkOrders, ph \in PhysConfigs}

RkApply ==
    /\ pc = "rk"
    /\ ~call.done
    /\ IF rk_order_ok(cfg)
       THEN /\ call' = [call EXCEPT !.done = TRUE,
                                    !.out = rk_step(cfg, call.s0, call.dt),
                                    !.calls = rk_calls(cfg, call.s0, call.dt)]
            /\ err' = err
       ELSE /\ call' = [call EXCEPT !.done = TRUE]
            /\ err' = "rk_order"
    /\ UNCHANGED <<cfg, pc, session, state, driver_state, t0dt, last_message_iteration, last_message_wall_time,
                   log, steps, chkpt, prods, ref, acc>>

InitRk ==
    /\ cfg \in RkConfigs
    /\ pc = "rk"
    /\ session = 1
    /\ state = initial_state(cfg.physics)
    /\ driver_state = driver_state_t
    /\ t0dt = NoLocals
    /\ last_message_iteration = 0
    /\ last_message_wall_time = 0
    /\ log = << >>
    /\ steps = << >>
    /\ chkpt = << >>
    /\ prods = << >>
    /\ err = "none"
    /\ ref = NoRef
    /\ acc = NoAcc
    /\ \E s0 \in RkStates, dt \in RkSteps :
          call = [done |-> FALSE, s0 |-> s0, dt |-> dt, out |-> s0, calls |-> << >>]

NextRk == RkApply

SpecRk == InitRk /\ [][NextRk]_vars

-----------------------------------------------------------------------------
(* The raw time of the integrators in binary floating point.  The run      *)
(* model above counts time in ticks that no operation rounds; here the     *)
(* raw time is a double scaled down to MantissaBits significant bits,      *)
(* written as an integer multiple of 2^-GridBits, and every sum and        *)
(* product is rounded to nearest, ties to even, as the hardware does.      *)

GridBits == 2 * MantissaBits + 2
One == 2^GridBits

\* the bits of n beyond the MantissaBits leading ones
RECURSIVE excess_bits(_)
excess_bits(n) == IF n < 2^MantissaBits THEN 0 ELSE 1 + excess_bits(n \div 2)

\* n rounded to MantissaBits significant bits
fl(n) ==
    LET sh   == excess_bits(n)
        q    == n \div 2^sh
        r    == n % 2^sh
        up   == sh > 0 /\ (2 * r > 2^sh \/ (2 * r = 2^sh /\ q % 2 = 1))
    IN  (IF up THEN q + 1 ELSE q) * 2^sh

\* a * b of two doubles
fl_mul(a, b) == fl(a * b) \div One

\* the literals 0.5, 0.25 and the quotient 2.0 / 3.0
Half == One \div 2
Quarter == One \div 4
TwoThirds == fl((2 * One * 2^(MantissaBits + 2)) \div 3) \div 2^(MantissaBits + 2)

\* new_state.time += dt;
euler_step_time(t, dt) == fl(t + dt)

\* result.time = (1.0 - alpha) * s1.time + alpha * s2.time;
average_time(ta, tb, alpha) ==
    fl(fl_mul(fl(One - alpha), ta) + fl_mul(alpha, tb))

rk1_step_time(t0, dt) == euler_step_time(t0, dt)

\* mutant: the second-order scheme averages with the first stage
rk2_step_time_single_stage(t0, dt) ==
    LET s1 == euler_step_time(t0, dt)
    IN  average_time(t0, s1, Half)

rk2_step_time(t0, dt) ==
    LET s1 == euler_step_time(t0, dt)
        s2 == euler_step_time(s1, dt)
    IN  average_time(t0, s2, Half)

rk3_step_time(t0, dt) ==
    LET s1 == euler_step_time(t0, dt)
        s2 == euler_step_time(s1, dt)
        s3 == euler_step_time(average_time(t0, s2, Quarter), dt)
    IN  average_time(t0, s3, TwoThirds)

rk_step_time(c, t, dt) ==
    CASE c.driver.rk_order = 1 -> rk1_step_time(t, dt)
      [] c.driver.rk_order = 2 -> rk2_step_time(t, dt)
      [] OTHER                 -> rk3_step_time(t, dt)

\* the doubles of four binades from 1/8 up to 2
FlTimes ==
    {m * 2^(GridBits + b - MantissaBits - 2) :
        m \in 2^(MantissaBits - 1) .. (2^MantissaBits - 1), b \in 0..3}

FlApply ==
    /\ pc = "fl"
    /\ ~call.done
    /\ call' = [call EXCEPT !.done = TRUE,
                            !.out = rk_step_time(cfg, call.t0, call.dt)]
    /\ UNCHANGED <<cfg, pc, session, state, driver_state, t0dt, last_message_iteration,
                   last_message_wall_time, log, steps, chkpt, prods, err, ref, acc>>

InitFl ==
    /\ cfg \in {c \in RkConfigs : rk_order_ok(c) /\ ~c.physics.vary}
    /\ pc = "fl"
    /\ session = 1
    /\ state = initial_state(cfg.physics)
    /\ driver_state = driver_state_t
    /\ t0dt = NoLocals
    /\ last_message_iteration = 0
    /\ last_message_wall_time = 0
    /\ log = << >>
    /\ steps = << >>
    /\ chkpt = << >>
    /\ prods = << >>
    /\ err = "none"
    /\ ref = NoRef
    /\ acc = NoAcc
    /\ \E t0 \in {0} \cup FlTimes, dt \in FlTimes :
          call = [done |-> FALSE, t0 |-> t0, dt |-> dt, out |-> t0]

SpecFl == InitFl /\ [][FlApply]_vars

-----------------------------------------------------------------------------
(* Multi-dimensional indexing (mist.hpp).  An index space is a start (int   *)
(* per axis) and a shape (unsigned int per axis); a vector is a sequence.   *)
(* Machine integers are scaled down: unsigned int and int are WordBits      *)
(* wide and std::size_t twice that, as 32 is to 64, so that the wrap of a   *)
(* product of extents is within reach of the enumeration.                   *)

UIntMod == 2 ^ WordBits
SizeMod == 2 ^ (2 * WordBits)

\* static_cast<std::size_t>(int) and static_cast<int>(std::size_t)
ToSizeT(x) == x % SizeMod
ToInt(x) == LET r == x % UIntMod IN IF 2 * r >= UIntMod THEN r - UIntMod ELSE r

Rank(space) == Len(space._shape)

\* size: the product of the extents, accumulated in an unsigned int
RECURSIVE size_loop(_, _, _)
size_loop(space, i, total) ==
    IF i > Rank(space) THEN total
    ELSE size_loop(space, i + 1, (total * space._shape[i]) % UIntMod)

size(space) == size_loop(space, 1, 1)

contains(space, index) ==
    \A i \in 1..Rank(space) :
        ~(index[i] < space._start[i] \/ index[i] >= space._start[i] + ToInt(space._shape[i]))

\* for (i = S; i > 0; --i) { offset += size_t(index[i-1] - start[i-1]) * stride; stride *= shape[i-1]; }
RECURSIVE ndoffset_loop(_, _, _, _, _)
ndoffset_loop(space, index, i, offset, stride) ==
    IF i = 0 THEN offset
    ELSE ndoffset_loop(space, index, i - 1,
             (offset + ToSizeT(index[i] - space._start[i]) * stride) % SizeMod,
             (stride * space._shape[i]) % SizeMod)

ndoffset(space, index) == ndoffset_loop(space, index, Rank(space), 0, 1)

\* for (i = S; i > 0; --i) { index[i-1] = start[i-1] + int(offset % shape[i-1]); offset /= shape[i-1]; }
RECURSIVE ndindex_loop(_, _, _, _)
ndindex_loop(space, offset, i, index) ==
    IF i = 0 THEN index
    ELSE ndindex_loop(space, offset \div space._shape[i], i - 1,
             [index EXCEPT ![i] = space._start[i] + ToInt(offset % space._shape[i])])

ndindex(space, offset) ==
    ndindex_loop(space, offset, Rank(space), [i \in 1..Rank(space) |-> 0])

\* the spaces, indices and offsets of the harness: one or two axes, every
\* extent positive, every index inside the space, every offset below the
\* number of elements
Starts == {-1, 0, 2}
Extents == 1..MaxExtent

Spaces ==
    UNION {[_start : [1..r -> Starts], _shape : [1..r -> Extents]] : r \in 1..MaxRank}

IndicesOf(space) ==
    {index \in [1..Rank(space) -> (-1)..(2 + MaxExtent)] : contains(space, index)}

RECURSIVE ElementCount(_, _)
ElementCount(space, i) ==
    IF i > Rank(space) THEN 1 ELSE space._shape[i] * ElementCount(space, i + 1)

NdOffsetCall ==
    /\ pc = "nd"
    /\ ~call.done /\ call.fn = "ndoffset"
    /\ call' = [call EXCEPT !.done = TRUE,
                            !.offset = ndoffset(call.space, call.index),
                            !.back = ndindex(call.space, ndoffset(call.space, call.index))]
    /\ UNCHANGED <<cfg, pc, session, state, driver_state, t0dt, last_message_iteration, last_message_wall_time,
                   log, steps, chkpt, prods, err, ref, acc>>

NdIndexCall ==
    /\ pc = "nd"
    /\ ~call.done /\ call.fn = "ndindex"
    /\ call' = [call EXCEPT !.done = TRUE,
                            !.index = ndindex(call.space, call.offset),
                            !.back = ndoffset(call.space, ndindex(call.space, call.offset))]
    /\ UNCHANGED <<cfg, pc, session, state, driver_state, t0dt, last_message_iteration, last_message_wall_time,
                   log, steps, chkpt, prods, err, ref, acc>>

InitNd ==
    /\ cfg = CHOOSE c \in Configs : TRUE
    /\ pc = "nd"
    /\ session = 1
    /\ state = initial_state(cfg.physics)
    /\ driver_state = driver_state_t
    /\ t0dt = NoLocals
    /\ last_message_iteration = 0
    /\ last_message_wall_time = 0
    /\ log = << >>
    /\ steps = << >>
    /\ chkpt = << >>
    /\ prods = << >>
    /\ err = "none"
    /\ ref = NoRef
    /\ acc = NoAcc
    /\ \E space \in Spaces :
          \/ \E index \in IndicesOf(space) :
                call = [done |-> FALSE, fn |-> "ndoffset", space |-> space,
                        index |-> index, offset |-> 0, back |-> << >>]
          \/ \E k \in 0..(ElementCount(space, 1) - 1) :
                call = [done |-> FALSE, fn |-> "ndindex", space |-> space,
                        index |-> << >>, offset |-> k, back |-> 0]

NextNd == NdOffsetCall \/ NdIndexCall

SpecNd == InitNd /\ [][NextNd]_vars

-----------------------------------------------------------------------------
(* The ASCII archive: ascii_writer, ascii_reader, serialize and deserialize. *)
(* Text is a sequence of characters and so is a name.  Values are built      *)
(* from int scalars.  A type is int, vec (vec_t<int, n>), vector             *)
(* (std::vector<int>), struct (a type with serialize_fields) or structs      *)
(* (std::vector of such a type); a struct value is the sequence of its       *)
(* field values, a vector value the sequence of its elements.                *)

Digit == <<"0", "1", "2", "3", "4", "5", "6", "7", "8", "9">>
Digits == {Digit[i] : i \in 1..10}

isspace(c) == c \in {" ", "\n", "\t", "\r"}

\* std::isalnum(c) || c == '_', over the letters the harness texts use
IdentifierChars ==
    Digits \cup {"_", "a", "b", "c", "d", "e", "f", "g", "h", "i", "j", "k", "l", "m", "n",
                 "o", "p", "q", "r", "s", "t", "u", "v", "w", "x", "y", "z", "E"}

\* std::isdigit(c) || c == '.' || c == '-' || c == '+' || c == 'e' || c == 'E'
ValueChars == Digits \cup {".", "-", "+", "e", "E"}

\* std::to_string(int)
RECURSIVE to_digits(_)
to_digits(n) ==
    IF n < 10 THEN <<Digit[n + 1]>>
    ELSE to_digits(n \div 10) \o <<Digit[(n % 10) + 1]>>

format_value(value) ==
    IF value < 0 THEN <<"-">> \o to_digits(-value) ELSE to_digits(value)

\* ---- ascii_writer: os_ and indent_level_, indent_size_ = 4 ----

ascii_writer == [os_ |-> << >>, indent_level_ |-> 0]

write_indent(w) ==
    [w EXCEPT !.os_ = @ \o [i \in 1..(w.indent_level_ * 4) |-> " "]]

Put(w, chars) == [w EXCEPT !.os_ = @ \o chars]

write_scalar(w, name, value) ==
    Put(write_indent(w), name \o <<" ", "=", " ">> \o format_value(value) \o <<"\n">>)

\* for (i = 0; i < size; ++i) { if (i > 0) os_ << ", "; os_ << format_value(value[i]); }
RECURSIVE write_elements(_, _)
write_elements(value, i) ==
    IF i > Len(value) THEN << >>
    ELSE (IF i > 1 THEN <<",", " ">> ELSE << >>)
         \o format_value(value[i]) \o write_elements(value, i + 1)

\* mutant: the separator is written from the third element on
write_vec_late_separator(w, name, value) ==
    LET RECURSIVE elements(_)
        elements(i) ==
            IF i > Len(value) THEN << >>
            ELSE (IF i > 2 THEN <<",", " ">> ELSE << >>)
                 \o format_value(value[i]) \o elements(i + 1)
    IN  Put(write_indent(w), name \o <<" ", "=", " ", "[">> \o elements(1) \o <<"]", "\n">>)

write_vec(w, name, value) ==
    Put(write_indent(w),
        name \o <<" ", "=", " ", "[">> \o write_elements(value, 1) \o <<"]", "\n">>)

write_scalar_vector(w, name, value) ==
    Put(write_indent(w),
        name \o <<" ", "=", " ", "[">> \o write_elements(value, 1) \o <<"]", "\n">>)

writer_begin_compound_vector(w, name, count) ==
    [Put(write_indent(w), name \o <<" ", "{", "\n">>) EXCEPT !.indent_level_ = @ + 1]

writer_end_compound_vector(w) ==
    Put(write_indent([w EXCEPT !.indent_level_ = @ - 1]), <<"}", "\n">>)

writer_begin_compound_vector_element(w, index) ==
    [Put(write_indent(w), <<"{", "\n">>) EXCEPT !.indent_level_ = @ + 1]

writer_end_compound_vector_element(w) ==
    Put(write_indent([w EXCEPT !.indent_level_ = @ - 1]), <<"}", "\n">>)

writer_begin_group(w, name) ==
    [Put(write_indent(w), name \o <<" ", "{", "\n">>) EXCEPT !.indent_level_ = @ + 1]

writer_end_group(w) ==
    Put(write_indent([w EXCEPT !.indent_level_ = @ - 1]), <<"}", "\n">>)

\* ---- serialize ----

RECURSIVE serialize(_, _, _, _)
RECURSIVE serialize_fields(_, _, _, _)
RECURSIVE serialize_elements(_, _, _, _)

serialize_fields(w, fields, value, i) ==
    IF i > Len(fields) THEN w
    ELSE serialize_fields(serialize(w, fields[i].name, fields[i].type, value[i]),
                          fields, value, i + 1)

serialize_elements(w, fields, value, i) ==
    IF i > Len(value) THEN w
    ELSE LET w1 == writer_begin_compound_vector_element(w, i - 1)
             w2 == serialize_fields(w1, fields, value[i], 1)
         IN  serialize_elements(writer_end_compound_vector_element(w2), fields, value, i + 1)

serialize(w, name, type, value) ==
    CASE type.kind = "int"     -> write_scalar(w, name, value)
      [] type.kind = "vec"     -> write_vec(w, name, value)
      [] type.kind = "vector"  -> write_scalar_vector(w, name, value)
      [] type.kind = "structs" ->
            writer_end_compound_vector(
                serialize_elements(writer_begin_compound_vector(w, name, Len(value)),
                                   type.fields, value, 1))
      [] OTHER ->
            writer_end_group(
                serialize_fields(writer_begin_group(w, name), type.fields, value, 1))

\* ---- ascii_reader: the stream position, current_group_, group_stack_, ----
\* ---- and the exception that ended the read: once err is set no member   ----
\* ---- does anything more.  reading is the name the caller passed to the  ----
\* ---- read in progress (history, not program state)                      ----

ascii_reader ==
    [pos |-> 1, current_group_ |-> << >>, group_stack_ |-> << >>,
     err |-> [what |-> "none"], reading |-> << >>]

ok(r) == r.err.what = "none"

\* throw std::runtime_error(...): what the message says, the quoted texts,
\* and the group path when the message ends "in group '<path>'"
throw(r, what, expected, found, in_group) ==
    [r EXCEPT !.err = [what |-> what, expected |-> expected, found |-> found,
                       in_group |-> in_group,
                       group |-> IF in_group THEN r.current_group_ ELSE << >>]]

peek_char(text, r) == IF r.pos <= Len(text) THEN text[r.pos] ELSE "EOF"

get_char(text, r) == IF r.pos <= Len(text) THEN [r EXCEPT !.pos = @ + 1] ELSE r

RECURSIVE skip_whitespace(_, _)
skip_whitespace(text, r) ==
    IF ok(r) /\ isspace(peek_char(text, r)) THEN skip_whitespace(text, get_char(text, r))
    ELSE r

RECURSIVE skip_whitespace_and_comments(_, _)
skip_whitespace_and_comments(text, r) ==
    LET r1 == skip_whitespace(text, r)
        \* while (is_ && get_char() != '\n') {}
        RECURSIVE skip_line(_)
        skip_line(q) ==
            IF q.pos > Len(text) THEN q
            ELSE IF text[q.pos] = "\n" THEN get_char(text, q)
            ELSE skip_line(get_char(text, q))
    IN  IF ok(r) /\ peek_char(text, r1) = "#"
        THEN skip_whitespace_and_comments(text, skip_line(r1))
        ELSE r1

expect_char(text, r, expected) ==
    IF ~ok(r) THEN r
    ELSE LET c == peek_char(text, r)
         IN  IF c # expected
             THEN throw(get_char(text, r), "Expected char", <<expected>>, <<c>>, TRUE)
             ELSE get_char(text, r)

\* the first position from pos on whose character is not in chars
RECURSIVE token_end(_, _, _)
token_end(text, pos, chars) ==
    IF pos <= Len(text) /\ text[pos] \in chars THEN token_end(text, pos + 1, chars) ELSE pos

read_identifier(text, r) ==
    LET e == token_end(text, r.pos, IdentifierChars)
        result == SubSeq(text, r.pos, e - 1)
    IN  IF ~ok(r) THEN [r |-> r, result |-> << >>]
        ELSE IF result = << >>
        THEN [r |-> throw(r, "Expected identifier", << >>, << >>, TRUE), result |-> result]
        ELSE [r |-> [r EXCEPT !.pos = e], result |-> result]

\* iss >> value for an int: an optional sign, then the digits up to the
\* first other character; it fails when no digit follows
parse_int(token) ==
    LET RECURSIVE digits_value(_, _)
        digits_value(i, sum) ==
            IF i <= Len(token) /\ token[i] \in Digits
            THEN digits_value(i + 1, 10 * sum + ((CHOOSE d \in 1..10 : Digit[d] = token[i]) - 1))
            ELSE sum
        signed == token[1] \in {"-", "+"}
        first  == IF signed THEN 2 ELSE 1
        fail   == ~(first <= Len(token) /\ token[first] \in Digits)
        sum    == digits_value(first, 0)
    IN  [fail |-> fail, value |-> IF fail THEN 0 ELSE IF token[1] = "-" THEN -sum ELSE sum]

read_value(text, r) ==
    LET e == token_end(text, r.pos, ValueChars)
        token == SubSeq(text, r.pos, e - 1)
        r1 == [r EXCEPT !.pos = e]
    IN  IF ~ok(r) THEN [r |-> r, value |-> 0]
        ELSE IF token = << >>
        THEN [r |-> throw(r, "Expected numeric value", << >>, << >>, TRUE), value |-> 0]
        ELSE IF parse_int(token).fail
        THEN [r |-> throw(r1, "Failed to parse value", << >>, token, TRUE), value |-> 0]
        ELSE [r |-> r1, value |-> parse_int(token).value]

\* skip_whitespace_and_comments(); field_name = read_identifier();
\* if (field_name != name) throw "Expected <what> '<name>' but found ..."
expect_name(text, r, name, what) ==
    LET r0 == [r EXCEPT !.reading = name]
        id == read_identifier(text, skip_whitespace_and_comments(text, r0))
    IN  IF ~ok(r) THEN r
        ELSE IF ~ok(id.r) THEN id.r
        ELSE IF id.result # name THEN throw(id.r, what, name, id.result, TRUE)
        ELSE id.r

\* mutant: the name that was read is not compared with the one asked for
read_scalar_any_name(text, r, name) ==
    LET r0 == [r EXCEPT !.reading = name]
        id == read_identifier(text, skip_whitespace_and_comments(text, r0))
        r2 == expect_char(text, skip_whitespace(text, id.r), "=")
    IN  IF ~ok(r) THEN [r |-> r, value |-> 0] ELSE read_value(text, skip_whitespace(text, r2))

read_scalar(text, r, name) ==
    LET r1 == expect_name(text, r, name, "Expected field")
        r2 == expect_char(text, skip_whitespace(text, r1), "=")
    IN  read_value(text, skip_whitespace(text, r2))

\* for (i = 0; i < N; ++i) { skip; value[i] = read_value(); skip; if (i < N - 1) expect_char(','); }
RECURSIVE read_vec_elements(_, _, _, _, _)
read_vec_elements(text, r, N, i, value) ==
    IF i >= N \/ ~ok(r) THEN [r |-> r, value |-> value]
    ELSE LET v  == read_value(text, skip_whitespace(text, r))
             r1 == skip_whitespace(text, v.r)
             r2 == IF i < N - 1 THEN expect_char(text, r1, ",") ELSE r1
         IN  read_vec_elements(text, r2, N, i + 1, Append(value, v.value))

read_vec(text, r, name, N) ==
    LET r1 == expect_name(text, r, name, "Expected field")
        r2 == expect_char(text, skip_whitespace(text, r1), "=")
        r3 == expect_char(text, skip_whitespace(text, r2), "[")
        el == read_vec_elements(text, r3, N, 0, << >>)
    IN  [r |-> expect_char(text, skip_whitespace(text, el.r), "]"), value |-> el.value]

\* while (true) { skip; push_back(read_value()); skip; ',' goes on, ']' ends, else throw }
RECURSIVE read_vector_elements(_, _, _)
read_vector_elements(text, r, value) ==
    LET v  == read_value(text, skip_whitespace(text, r))
        r1 == skip_whitespace(text, v.r)
        c  == peek_char(text, r1)
    IN  IF ~ok(r) THEN [r |-> r, value |-> value]
        ELSE IF ~ok(v.r) THEN [r |-> v.r, value |-> value]
        ELSE IF c = "," THEN read_vector_elements(text, get_char(text, r1), Append(value, v.value))
        ELSE IF c = "]" THEN [r |-> get_char(text, r1), value |-> Append(value, v.value)]
        ELSE [r |-> throw(r1, "Expected ',' or ']'", << >>, <<c>>, FALSE),
              value |-> Append(value, v.value)]

read_scalar_vector(text, r, name) ==
    LET r1 == expect_name(text, r, name, "Expected field")
        r2 == expect_char(text, skip_whitespace(text, r1), "=")
        r3 == skip_whitespace(text, expect_char(text, skip_whitespace(text, r2), "["))
    IN  IF ~ok(r3) THEN [r |-> r3, value |-> << >>]
        ELSE IF peek_char(text, r3) = "]" THEN [r |-> get_char(text, r3), value |-> << >>]
        ELSE read_vector_elements(text, r3, << >>)

\* the scan ahead over the elements of a compound vector
RECURSIVE count_compound_elements(_, _, _, _, _)
count_compound_elements(text, r, count, depth, in_element) ==
    LET r1 == skip_whitespace_and_comments(text, r)
        c  == peek_char(text, r1)
    IN  IF c = "{"
        THEN count_compound_elements(text, get_char(text, r1), count, depth + 1,
                                     IF depth = 0 THEN TRUE ELSE in_element)
        ELSE IF c = "}"
        THEN IF depth = 0 THEN count
             ELSE IF depth - 1 = 0 /\ in_element
                  THEN count_compound_elements(text, get_char(text, r1), count + 1, 0, FALSE)
                  ELSE count_compound_elements(text, get_char(text, r1), count, depth - 1,
                                               in_element)
        ELSE IF c = "EOF" THEN count
        ELSE count_compound_elements(text, get_char(text, r1), count, depth, in_element)

\* current_group_ = current_group_.empty() ? name : current_group_ + "/" + name;
\* group_stack_.push_back(prev_group)
push_group(r, name) ==
    [r EXCEPT !.current_group_ = IF @ = << >> THEN name ELSE @ \o <<"/">> \o name,
              !.group_stack_ = Append(@, r.current_group_)]

\* mutant: the saved path is dropped from the stack but not put back
pop_group_keeps_path(r) ==
    IF r.group_stack_ # << >>
    THEN [r EXCEPT !.group_stack_ = SubSeq(@, 1, Len(@) - 1)]
    ELSE r

\* if (!group_stack_.empty()) { current_group_ = group_stack_.back(); group_stack_.pop_back(); }
pop_group(r) ==
    IF r.group_stack_ # << >>
    THEN [r EXCEPT !.current_group_ = r.group_stack_[Len(r.group_stack_)],
                   !.group_stack_ = SubSeq(@, 1, Len(@) - 1)]
    ELSE r

reader_begin_compound_vector(text, r, name) ==
    LET r1 == expect_name(text, r, name, "Expected field")
        r2 == expect_char(text, skip_whitespace(text, r1), "{")
    IN  IF ~ok(r2) THEN [r |-> r2, count |-> 0]
        ELSE [r |-> push_group(r2, name),
              count |-> count_compound_elements(text, r2, 0, 0, FALSE)]

reader_end_compound_vector(text, r) ==
    LET r1 == expect_char(text, skip_whitespace_and_comments(text, r), "}")
    IN  IF ok(r1) THEN pop_group(r1) ELSE r1

reader_begin_compound_vector_element(text, r, index) ==
    expect_char(text, skip_whitespace_and_comments(text, r), "{")

reader_end_compound_vector_element(text, r) ==
    expect_char(text, skip_whitespace_and_comments(text, r), "}")

reader_begin_group(text, r, name) ==
    LET r1 == expect_name(text, r, name, "Expected group")
        r2 == expect_char(text, skip_whitespace(text, r1), "{")
    IN  IF ok(r2) THEN push_group(r2, name) ELSE r2

reader_end_group(text, r) ==
    LET r1 == expect_char(text, skip_whitespace_and_comments(text, r), "}")
    IN  IF ok(r1) THEN pop_group(r1) ELSE r1

\* ---- deserialize ----

RECURSIVE deserialize(_, _, _, _)
RECURSIVE deserialize_fields(_, _, _, _, _)
RECURSIVE deserialize_elements(_, _, _, _, _, _)

deserialize_fields(text, r, fields, i, value) ==
    IF i > Len(fields) \/ ~ok(r) THEN [r |-> r, value |-> value]
    ELSE LET d == deserialize(text, r, fields[i].name, fields[i].type)
         IN  deserialize_fields(text, d.r, fields, i + 1, Append(value, d.value))

deserialize_elements(text, r, fields, count, i, value) ==
    IF i > count \/ ~ok(r) THEN [r |-> r, value |-> value]
    ELSE LET r1 == reader_begin_compound_vector_element(text, r, i - 1)
             d  == deserialize_fields(text, r1, fields, 1, << >>)
             r2 == reader_end_compound_vector_element(text, d.r)
         IN  deserialize_elements(text, r2, fields, count, i + 1, Append(value, d.value))

deserialize(text, r, name, type) ==
    CASE type.kind = "int"     -> read_scalar(text, r, name)
      [] type.kind = "vec"     -> read_vec(text, r, name, type.n)
      [] type.kind = "vector"  -> read_scalar_vector(text, r, name)
      [] type.kind = "structs" ->
            LET b == reader_begin_compound_vector(text, r, name)
                d == deserialize_elements(text, b.r, type.fields, b.count, 1, << >>)
            IN  [r |-> reader_end_compound_vector(text, d.r), value |-> d.value]
      [] OTHER ->
            LET d == deserialize_fields(text, reader_begin_group(text, r, name),
                                        type.fields, 1, << >>)
            IN  [r |-> reader_end_group(text, d.r), value |-> d.value]

\* ---- harness: one document written, possibly edited, then read ----

IntT(dom) == [kind |-> "int", dom |-> dom]
VecT(n, dom) == [kind |-> "vec", n |-> n, dom |-> dom]
VectorT(dom) == [kind |-> "vector", dom |-> dom]
StructT(fields) == [kind |-> "struct", fields |-> fields]
StructsT(fields) == [kind |-> "structs", fields |-> fields]
Field(name, type) == [name |-> name, type |-> type]

RECURSIVE ValuesOf(_)
RECURSIVE FieldValues(_)

FieldValues(fields) ==
    IF fields = << >> THEN {<< >>}
    ELSE {<<v>> \o rest : v \in ValuesOf(Head(fields).type),
                          rest \in FieldValues(Tail(fields))}

ValuesOf(type) ==
    CASE type.kind = "int"     -> type.dom
      [] type.kind = "vec"     -> [1..type.n -> type.dom]
      [] type.kind = "vector"  -> SeqsUpTo(type.dom, MaxElems)
      [] type.kind = "structs" -> SeqsUpTo(FieldValues(type.fields), MaxElems)
      [] OTHER                 -> FieldValues(type.fields)

\* the documents written: top-level fields in order (as in the tests'
\* particle_t, grid_config_t and simulation_state_t)
particle_t ==
    <<Field(<<"m">>, IntT({0, 105})),
      Field(<<"g">>, StructT(<<Field(<<"n">>, IntT({-3}))>>))>>

grid_config_t ==
    <<Field(<<"r">>, VecT(2, {7, -40})), Field(<<"r", "x">>, IntT({12}))>>

simulation_state_t ==
    <<Field(<<"t">>, IntT({-3, 12})),
      Field(<<"g">>, StructT(<<Field(<<"r">>, VecT(2, {7}))>>)),
      Field(<<"p">>, StructsT(particle_t)),
      Field(<<"f">>, VectorT({12}))>>

Documents ==
    {<<Field(<<"t">>, IntT({-3, 0, 12})), Field(<<"t", "i">>, IntT({105}))>>,
     <<Field(<<"r">>, VecT(3, {-3, 12}))>>,
     <<Field(<<"f">>, VectorT({-3, 12}))>>,
     <<Field(<<"g">>, StructT(grid_config_t))>>,
     <<Field(<<"p">>, StructsT(grid_config_t))>>,
     <<Field(<<"s">>, StructT(simulation_state_t))>>}

\* the field lists a reader may ask for in place of the written one: one
\* field renamed, removed, added or exchanged with its neighbour, at any depth
RECURSIVE OtherFields(_)
OtherFields(fields) ==
    LET n == Len(fields)
        Renamed(name) ==
            {name \o <<"x">>}
            \cup (IF Len(name) > 1 THEN {SubSeq(name, 1, Len(name) - 1)} ELSE {})
        nested == {i \in 1..n : fields[i].type.kind \in {"struct", "structs"}}
    IN  UNION {{[fields EXCEPT ![i].name = m] : m \in Renamed(fields[i].name)} : i \in 1..n}
        \cup {SubSeq(fields, 1, i - 1) \o SubSeq(fields, i + 1, n) : i \in 1..n}
        \cup {[fields EXCEPT ![i] = fields[i + 1], ![i + 1] = fields[i]] : i \in 1..(n - 1)}
        \cup {SubSeq(fields, 1, i) \o <<Field(<<"z">>, IntT({0}))>> \o SubSeq(fields, i + 1, n) :
                 i \in 0..n}
        \cup UNION {{[fields EXCEPT ![i].type.fields = inner] :
                        inner \in OtherFields(fields[i].type.fields)} : i \in nested}

\* serialize(writer, ...) for each top-level field in turn
ArSerialize ==
    /\ pc = "archive"
    /\ call.stage = "new"
    /\ call' = [call EXCEPT !.stage = "text",
                            !.text = serialize_fields(ascii_writer, call.fields,
                                                      call.value, 1).os_]
    /\ UNCHANGED <<cfg, pc, session, state, driver_state, t0dt, last_message_iteration, last_message_wall_time,
                   log, steps, chkpt, prods, err, ref, acc>>

\* the text is edited between the write and the read: one character is removed
ArEdit ==
    /\ pc = "archive"
    /\ call.stage = "text"
    /\ ~call.edited
    /\ call.asked = call.fields
    /\ \E k \in 1..Len(call.text) :
          call' = [call EXCEPT !.edited = TRUE,
                               !.text = SubSeq(@, 1, k - 1) \o SubSeq(@, k + 1, Len(@))]
    /\ UNCHANGED <<cfg, pc, session, state, driver_state, t0dt, last_message_iteration, last_message_wall_time,
                   log, steps, chkpt, prods, err, ref, acc>>

\* deserialize(reader, ...) for each field asked for in turn
ArDeserialize ==
    /\ pc = "archive"
    /\ call.stage = "text"
    /\ \E d \in {deserialize_fields(call.text, ascii_reader, call.asked, 1, << >>)} :
          call' = [call EXCEPT !.stage = "read", !.done = TRUE,
                               !.reader = d.r, !.result = d.value]
    /\ UNCHANGED <<cfg, pc, session, state, driver_state, t0dt, last_message_iteration, last_message_wall_time,
                   log, steps, chkpt, prods, err, ref, acc>>

InitArchive ==
    /\ cfg = CHOOSE c \in Configs : TRUE
    /\ pc = "archive"
    /\ session = 1
    /\ state = initial_state(cfg.physics)
    /\ driver_state = driver_state_t
    /\ t0dt = NoLocals
    /\ last_message_iteration = 0
    /\ last_message_wall_time = 0
    /\ log = << >>
    /\ steps = << >>
    /\ chkpt = << >>
    /\ prods = << >>
    /\ err = "none"
    /\ ref = NoRef
    /\ acc = NoAcc
    /\ \E d \in Documents :
          \E v \in FieldValues(d) :
             \E a \in ({d} \cup OtherFields(d)) \ {<< >>} :
                call = [done |-> FALSE, stage |-> "new", fields |-> d, value |-> v,
                        asked |-> a, edited |-> FALSE, text |-> << >>,
                        reader |-> ascii_reader, result |-> << >>]

NextArchive == ArSerialize \/ ArEdit \/ ArDeserialize

SpecArchive == InitArchive /\ [][NextArchive]_vars

\* ---- the group calls on their own: a reader over a short text is sent   ----
\* ---- begin_group(name), begin_group() and end_group() in any order      ----

\* void begin_group(): current_group_ = current_group_ + "[]";
\* group_stack_.push_back(prev_group)
reader_begin_group_anonymous(text, r) ==
    LET r1 == expect_char(text, skip_whitespace_and_comments(text, r), "{")
    IN  IF ok(r1)
        THEN [r1 EXCEPT !.current_group_ = @ \o <<"[", "]">>,
                        !.group_stack_ = Append(@, r1.current_group_)]
        ELSE r1

GroupTexts == SeqsUpTo({"a", "b", "{", "}"}, MaxGroupText)

GroupOps ==
    {[kind |-> "begin_group", name |-> <<n>>] : n \in {"a", "b"}}
    \cup {[kind |-> "begin_anonymous", name |-> << >>],
          [kind |-> "end_group", name |-> << >>]}

\* one call on the reader; the harness remembers the reader before the call
\* and, for each group that is open, the path and depth at its begin
GroupCall ==
    /\ pc = "groups"
    /\ ok(call.reader)
    /\ \E op \in GroupOps :
       \E r1 \in {CASE op.kind = "begin_group" ->
                         reader_begin_group(call.text, call.reader, op.name)
                    [] op.kind = "begin_anonymous" ->
                         reader_begin_group_anonymous(call.text, call.reader)
                    [] OTHER -> reader_end_group(call.text, call.reader)} :
          call' = [call EXCEPT
                     !.reader = r1,
                     !.prev = call.reader,
                     !.op = op,
                     !.calls = @ + 1,
                     !.open = IF ~ok(r1) THEN @
                              ELSE IF op.kind # "end_group"
                              THEN Append(@, [path |-> call.reader.current_group_,
                                              depth |-> Len(call.reader.group_stack_)])
                              ELSE SubSeq(@, 1, Len(@) - 1),
                     !.closed = IF ok(r1) /\ op.kind = "end_group" /\ call.open # << >>
                                THEN <<call.open[Len(call.open)]>>
                                ELSE << >>]
    /\ UNCHANGED <<cfg, pc, session, state, driver_state, t0dt, last_message_iteration,
                   last_message_wall_time, log, steps, chkpt, prods, err, ref, acc>>

InitGroups ==
    /\ cfg = CHOOSE c \in Configs : TRUE
    /\ pc = "groups"
    /\ session = 1
    /\ state = initial_state(cfg.physics)
    /\ driver_state = driver_state_t
    /\ t0dt = NoLocals
    /\ last_message_iteration = 0
    /\ last_message_wall_time = 0
    /\ log = << >>
    /\ steps = << >>
    /\ chkpt = << >>
    /\ prods = << >>
    /\ err = "none"
    /\ ref = NoRef
    /\ acc = NoAcc
    /\ \E text \in GroupTexts :
          call = [done |-> FALSE, text |-> text, reader |-> ascii_reader,
                  prev |-> ascii_reader, op |-> [kind |-> "none", name |-> << >>],
                  calls |-> 0, open |-> << >>, closed |-> << >>]

SpecGroups == InitGroups /\ [][GroupCall]_vars

-----------------------------------------------------------------------------
(* Properties *)

Fresh == session = 1 /\ pc # "harness"

Scheduled(j) == log[j].how # "initial"

\* the ordinal of log[j] among the scheduled firings of its channel
FiringIndex(j) ==
    Cardinality({m \in 1..j : log[m].chan = log[j].chan /\ Scheduled(m)})

\* the number of scheduled firings of channel i in this session
Firings(i) == Cardinality({j \in 1..Len(log) : log[j].chan = i /\ Scheduled(j)})

\* no real step of the session was longer than d
StepsWithin(d) == \A k \in 1..Len(steps) : steps[k].dt <= d

ExactChannel(i) ==
    outputs(cfg)[i].policy = "exact" /\ outputs(cfg)[i].interval_kind = 0

NearestRawChannel(i) ==
    outputs(cfg)[i].policy = "nearest" /\ outputs(cfg)[i].interval_kind = 0

\* C2: in a fresh run the state handed to the callback at the k-th scheduled
\* firing of an exact-policy channel has raw time k * interval, which is the
\* next_time the trigger was tested against.
Thm_C2_ExactOutputTime ==
    Fresh =>
        \A j \in 1..Len(log) :
            log[j].how = "exact" =>
                /\ get_time(log[j].state, 0) = FiringIndex(j) * outputs(cfg)[log[j].chan].interval
                /\ get_time(log[j].state, 0) = log[j].trig

\* an exact firing that lands on no step boundary, and a second firing of a channel
Wit_C2_ExactOffBoundary ==
    /\ Fresh /\ pc = "done"
    /\ \E j \in 1..Len(log) :
          /\ log[j].how = "exact"
          /\ \A k \in 1..Len(steps) :
                get_time(log[j].state, 0) \notin {steps[k].t0, steps[k].t0 + steps[k].dt}
    /\ \E j \in 1..Len(log) : log[j].how = "exact" /\ FiringIndex(j) >= 2

\* C3 as stated: when the loop of a fresh run ends on the time bound, an
\* exact-policy channel none of whose steps was longer than its interval has
\* count = floor(t_final / interval).
Cex_C3_CountIsFloorOfTFinal ==
    (Fresh /\ pc = "done" /\ t0dt.t0 >= cfg.driver.t_final) =>
        \A i \in Channels :
            (ExactChannel(i) /\ StepsWithin(outputs(cfg)[i].interval)) =>
                driver_state[outputs(cfg)[i].count]
                    = cfg.driver.t_final \div outputs(cfg)[i].interval

\* C3 amended: the count is floor(T / interval) for T the raw time of the
\* final state, which is at or past t_final when the loop ends on the time bound.
Thm_C3_CountIsFloorOfFinalTime ==
    (Fresh /\ pc = "done") =>
        \A i \in Channels :
            (ExactChannel(i) /\ StepsWithin(outputs(cfg)[i].interval)) =>
                /\ driver_state[outputs(cfg)[i].count]
                      = get_time(state, 0) \div outputs(cfg)[i].interval
                /\ Firings(i) = driver_state[outputs(cfg)[i].count]

Wit_C3_ExactCounted ==
    /\ Fresh /\ pc = "done" /\ t0dt.t0 >= cfg.driver.t_final
    /\ \E i \in Channels :
          /\ ExactChannel(i) /\ StepsWithin(outputs(cfg)[i].interval)
          /\ driver_state[outputs(cfg)[i].count] >= 2
          /\ get_time(state, 0) > cfg.driver.t_final

\* C4 as stated: when the loop has ended, a nearest-policy channel on raw
\* time has next_time > the final t0 and next_time = interval * (firings + 1).
Cex_C4_NearestNextTimeAhead ==
    (Fresh /\ pc = "done") =>
        \A i \in Channels :
            NearestRawChannel(i) =>
                /\ driver_state[outputs(cfg)[i].next_time] > t0dt.t0
                /\ driver_state[outputs(cfg)[i].next_time]
                      = outputs(cfg)[i].interval * (Firings(i) + 1)

\* C4 amended: next_time = interval * (firings + 1) always; next_time is
\* past the final t0 when no step was longer than the channel's interval.
Thm_C4_NearestNextTime ==
    (Fresh /\ pc = "done") =>
        \A i \in Channels :
            NearestRawChannel(i) =>
                /\ driver_state[outputs(cfg)[i].next_time]
                      = outputs(cfg)[i].interval * (Firings(i) + 1)
                /\ StepsWithin(outputs(cfg)[i].interval) =>
                      driver_state[outputs(cfg)[i].next_time] > t0dt.t0

Wit_C4_NearestFired ==
    /\ Fresh /\ pc = "done"
    /\ \E i \in Channels :
          /\ NearestRawChannel(i) /\ StepsWithin(outputs(cfg)[i].interval)
          /\ Firings(i) >= 2

\* C5: a fresh run with max_iter = N > 0 never takes more than N steps, and
\* when it returns without having reached t_final it has taken exactly N
\* steps and iteration = N.
Thm_C5_MaxIterStopsAtN ==
    (Fresh /\ cfg.driver.max_iter > 0) =>
        /\ Len(steps) <= cfg.driver.max_iter
        /\ driver_state.iteration = Len(steps)
        /\ (pc = "done" /\ get_time(state, 0) < cfg.driver.t_final) =>
              Len(steps) = cfg.driver.max_iter

Wit_C5_StoppedByCap ==
    /\ Fresh /\ pc = "done"
    /\ cfg.driver.max_iter > 0
    /\ get_time(state, 0) < cfg.driver.t_final
    /\ driver_state.iteration = cfg.driver.max_iter

InvalidSchedule(c) == \E i \in Channels : outputs(c)[i].policy = "exact" /\ outputs(c)[i].interval_kind # 0

\* C6: with an exact-policy channel on a time kind other than 0, run ends in
\* the configuration error before any step and before any callback: nothing
\* is logged, no file exists, iteration is 0 and the loop is never entered.
Thm_C6_InvalidScheduleFailsFirst ==
    (pc # "harness" /\ InvalidSchedule(cfg)) =>
        /\ pc \in {"enter", "validate", "error"}
        /\ pc = "error" => err = "validate"
        /\ log = << >>
        /\ steps = << >>
        /\ DOMAIN chkpt = {} /\ DOMAIN prods = {}
        /\ driver_state.iteration = 0
        /\ driver_state.timeseries_data = << >>

Wit_C6_ValidationError ==
    /\ InvalidSchedule(cfg)
    /\ pc = "error" /\ err = "validate"
    /\ driver_state.next_checkpoint_time = cfg.driver.checkpoint_interval

BadOrder(c) == c.driver.rk_order \notin {1, 2, 3}

RECURSIVE RefState(_, _)
RefState(c, n) ==
    IF n = 0 THEN initial_state(c.physics)
    ELSE LET s == RefState(c, n - 1)
         IN  rk_step(c, s, c.driver.cfl * courant_time(c.physics, s))

RefEnds(c, n) ==
    \/ get_time(RefState(c, n), 0) >= c.driver.t_final
    \/ (c.driver.max_iter > 0 /\ n >= c.driver.max_iter)

\* cfg with the twelve scheduling fields set to those of the default pattern
Unscheduled(c) ==
    [c EXCEPT !.driver = driver_config(DefaultSpecs, c.driver.rk_order, c.driver.cfl,
                                       [t_final |-> c.driver.t_final, max_iter |-> c.driver.max_iter])]

\* C8: the real states, the step sizes, the final state and the final
\* iteration of a fresh run are those of the simulation without outputs,
\* whatever the channels' intervals, time kinds and policies are.
Thm_C8_SchedulingDoesNotSteer ==
    Fresh =>
        LET u == Unscheduled(cfg) IN
        /\ driver_state.iteration = Len(steps)
        /\ state = RefState(u, Len(steps))
        /\ \A k \in 1..Len(steps) :
              /\ steps[k].t0 = get_time(RefState(u, k - 1), 0)
              /\ steps[k].dt = u.driver.cfl * courant_time(u.physics, RefState(u, k - 1))
              /\ ~RefEnds(u, k - 1)
        /\ pc = "done" => RefEnds(u, Len(steps))

Wit_C8_ExactFiredInsideStep ==
    /\ Fresh /\ pc = "done" /\ Len(steps) >= 2
    /\ \E j \in 1..Len(log) :
          /\ log[j].how = "exact"
          /\ \A k \in 1..Len(steps) :
                get_time(log[j].state, 0) \notin {steps[k].t0, steps[k].t0 + steps[k].dt}
    /\ \E i \in Channels : outputs(cfg)[i] # outputs(Unscheduled(cfg))[i]

\* C10: a scheduled firing increments count and advances next_time before
\* it calls back: the callback of the k-th scheduled firing of a channel in
\* a fresh run sees count = k and next_time = trigger + interval, and the
\* checkpoint file it writes is number k and holds that driver state, with
\* every timeseries sample taken so far.
Thm_C10_CallbackSeesPostOutputState ==
    Fresh =>
        \A j \in 1..Len(log) :
            Scheduled(j) =>
                LET out == outputs(cfg)[log[j].chan]
                    k   == FiringIndex(j)
                    sampled == Cardinality({m \in 1..(j - 1) : log[m].chan = TIMESERIES})
                IN  /\ log[j].ds[out.count] = k
                    /\ log[j].ds[out.next_time] = log[j].trig + out.interval
                    /\ log[j].trig = k * out.interval
                    /\ log[j].chan = CHECKPOINT =>
                          /\ k \in DOMAIN chkpt
                          /\ chkpt[k].driver_state.checkpoint_count = k
                          /\ chkpt[k].driver_state.next_checkpoint_time = (k + 1) * out.interval
                          /\ chkpt[k].state = log[j].state
                          /\ chkpt[k].driver_state.timeseries_data = log[j].ds.timeseries_data
                          /\ \A col \in 1..Len(chkpt[k].driver_state.timeseries_data) :
                                chkpt[k].driver_state.timeseries_data[col][1] = "time" =>
                                    Len(chkpt[k].driver_state.timeseries_data[col][2]) = sampled
                          /\ sampled > 0 => chkpt[k].driver_state.timeseries_data # << >>

Wit_C10_ScheduledCheckpoint ==
    /\ Fresh
    /\ \E j \in 1..Len(log) :
          /\ Scheduled(j) /\ log[j].chan = CHECKPOINT /\ FiringIndex(j) = 2
          /\ Len(chkpt[2].driver_state.timeseries_data) = 3
          /\ chkpt[2].driver_state.timeseries_data # driver_state.timeseries_data

\* C1 as stated: a second session that restores driver_state from a
\* checkpoint of the first and resumes from the checkpointed state ends with
\* the State and the DriverState of the uninterrupted run.
Cex_C1_RestartEquivalence ==
    (session = 2 /\ pc = "done" /\ cfg.physics.resume.set) =>
        /\ state = ref.state
        /\ driver_state = ref.driver_state

\* the values a sample gives for one column name, in the sample's order
ValuesFor(sample, name) ==
    LET Named(p) == p[1] = name
        sel == SelectSeq(sample, Named)
    IN  [k \in 1..Len(sel) |-> sel[k][2]]

FirstPos(sample, name) == CHOOSE k \in 1..Len(sample) :
    sample[k][1] = name /\ \A m \in 1..(k - 1) : sample[m][1] # name

ColumnNamesOf(data) == {data[i][1] : i \in 1..Len(data)}

\* C9: merging a sample keeps the existing columns in place and appends to
\* each the sample's values for its name, in order; the names the sample
\* introduces become columns after the existing ones, in order of first
\* occurrence, each holding exactly the sample's values for it.
Thm_C9_AccumulateAppendsOrCreates ==
    (pc = "harness" /\ acc.n > 0) =>
        LET new == {acc.sample[k][1] : k \in 1..Len(acc.sample)} \ ColumnNamesOf(acc.prev)
        IN  /\ Len(acc.data) = Len(acc.prev) + Cardinality(new)
            /\ \A i \in 1..Len(acc.prev) :
                  /\ acc.data[i][1] = acc.prev[i][1]
                  /\ acc.data[i][2] = acc.prev[i][2] \o ValuesFor(acc.sample, acc.prev[i][1])
            /\ \A i \in (Len(acc.prev) + 1)..Len(acc.data) :
                  /\ acc.data[i][1] \in new
                  /\ acc.data[i][2] = ValuesFor(acc.sample, acc.data[i][1])
                  /\ \A j \in (i + 1)..Len(acc.data) :
                        FirstPos(acc.sample, acc.data[i][1]) < FirstPos(acc.sample, acc.data[j][1])

\* {mass: 1} then {mass: 2, energy: 2}: mass = [1, 2], energy = [2]
Wit_C9_UnequalColumns ==
    /\ pc = "harness"
    /\ acc.prev = << <<"mass", <<1>> >> >>
    /\ acc.sample = << <<"mass", 2>>, <<"energy", 2>> >>
    /\ acc.data = << <<"mass", <<1, 2>> >>, <<"energy", <<2>> >> >>

\* the callback invocations of channel i in this session, in order
EventsOf(i) ==
    LET OfChannel(e) == e.chan = i
    IN  SelectSeq(log, OfChannel)

\* C11: in a fresh run the checkpoint and the product files are numbered by
\* the channel's emissions: the t=0 output writes number 0, the k-th
\* scheduled firing writes number k, and after n emissions the files are
\* exactly those numbered 0..n-1, file k holding the k-th emission's state.
Thm_C11_FilesNumberedByEmission ==
    Fresh =>
        /\ LET ev == EventsOf(CHECKPOINT)
           IN  /\ DOMAIN chkpt = 0..(Len(ev) - 1)
               /\ \A k \in 1..Len(ev) :
                     /\ (ev[k].how = "initial") <=> (k = 1)
                     /\ chkpt[k - 1].state = ev[k].state
                     /\ chkpt[k - 1].driver_state.checkpoint_count = k - 1
        /\ LET ev == EventsOf(PRODUCTS)
           IN  /\ DOMAIN prods = 0..(Len(ev) - 1)
               /\ \A k \in 1..Len(ev) :
                     /\ (ev[k].how = "initial") <=> (k = 1)
                     /\ prods[k - 1] = get_product(cfg.physics, ev[k].state)
                     /\ ev[k].ds.products_count = k - 1

\* three checkpoints and three product files after more than three steps
Wit_C11_NumbersBehindIteration ==
    /\ Fresh /\ pc = "done"
    /\ DOMAIN chkpt = 0..2 /\ DOMAIN prods = 0..2
    /\ driver_state.iteration > 3

\* the iteration the session was entered with
EnteredIteration == driver_state.iteration - Len(steps)

BeforeLoopBody == pc \in {"enter", "validate", "initial", "loop"}

\* C12: a session entered with a restored driver state whose iteration is
\* positive takes the driver state as given: no step of run() before the
\* body of the loop changes the counts, the next_times, the iteration or
\* timeseries_data, calls a callback or writes a file, and the session
\* never fires the t=0 outputs.
Thm_C12_RestoredStateTakenAsGiven ==
    /\ [](  (session = 2 /\ EnteredIteration > 0) =>
                /\ \A j \in 1..Len(log) : log[j].how # "initial"
                /\ (steps = << >> /\ BeforeLoopBody) => log = << >>  )
    /\ [][  (session = 2 /\ BeforeLoopBody /\ driver_state.iteration > 0) =>
                UNCHANGED <<driver_state, log, chkpt, prods>>  ]_vars

\* a restarted session at the top of its first loop iteration, and one
\* that has ended after its loop fired a scheduled checkpoint
Wit_C12_RestoredThenLoopFires ==
    /\ session = 2 /\ EnteredIteration > 0 /\ pc = "done"
    /\ Len(steps) > 0
    /\ driver_state.timeseries_data # << >>
    /\ \E j \in 1..Len(log) : log[j].chan = CHECKPOINT /\ log[j].ds.checkpoint_count >= 2

AllCountsZero(ds) ==
    /\ ds.message_count = 0 /\ ds.checkpoint_count = 0
    /\ ds.products_count = 0 /\ ds.timeseries_count = 0

PastInitialOutputs ==
    pc \in {"loop", "exact", "step", "nearest", "done"} \/ (pc = "error" /\ err # "validate")

\* C13: a fresh run that has passed validation has called the checkpoint,
\* the product and the timeseries callback once each with the initial state,
\* in that order and before anything else, each seeing all four counts at
\* 0; the message callback is not called in this pass, and at the top of
\* the first loop iteration the counts are still 0 and nothing else was
\* called.  Before that point no callback has run.
Thm_C13_InitialOutputsOnce ==
    Fresh =>
        /\ ~PastInitialOutputs => log = << >>
        /\ PastInitialOutputs =>
              /\ Len(log) >= 3
              /\ <<log[1].chan, log[2].chan, log[3].chan>> = <<CHECKPOINT, PRODUCTS, TIMESERIES>>
              /\ \A j \in 1..Len(log) :
                    /\ (log[j].how = "initial") <=> (j <= 3)
                    /\ j <= 3 =>
                          /\ log[j].state = initial_state(cfg.physics)
                          /\ AllCountsZero(log[j].ds)
                          /\ log[j].ds.iteration = 0
              /\ (pc = "loop" /\ steps = << >>) =>
                    /\ Len(log) = 3
                    /\ AllCountsZero(driver_state)
                    /\ DOMAIN chkpt = {0} /\ DOMAIN prods = {0}
                    /\ driver_state.timeseries_data =
                          accumulate_timeseries_sample(<< >>,
                              timeseries_sample(cfg.physics, initial_state(cfg.physics)))

\* the run has gone on: a message and a further checkpoint were emitted
Wit_C13_InitialThenScheduled ==
    /\ Fresh /\ pc = "done"
    /\ Len(log) > 3 /\ log[3].how = "initial"
    /\ driver_state.message_count > 0 /\ driver_state.checkpoint_count > 0

\* the termination condition as the specification words it
Ends(c, iteration, t0) ==
    \/ t0 >= c.driver.t_final
    \/ (c.driver.max_iter > 0 /\ iteration >= c.driver.max_iter)

\* C14: every step of a session was preceded by a termination test that was
\* false for the step's t0 and the iteration count of that moment, the body
\* of an iteration is only ever entered on a false test, and the loop has
\* ended only on a true one; with max_iter <= 0 it ends on the time bound
\* alone.  When the test is true on entry the session takes no step and
\* makes no scheduled output.
Thm_C14_TerminationTestGuardsEveryStep ==
    pc # "harness" =>
        /\ \A k \in 1..Len(steps) : ~Ends(cfg, EnteredIteration + k - 1, steps[k].t0)
        /\ pc \in {"exact", "step"} => ~Ends(cfg, driver_state.iteration, t0dt.t0)
        /\ pc = "nearest" => ~Ends(cfg, driver_state.iteration - 1, t0dt.t0)
        /\ pc = "done" =>
              /\ Ends(cfg, driver_state.iteration, get_time(state, 0))
              /\ cfg.driver.max_iter <= 0 => get_time(state, 0) >= cfg.driver.t_final
        /\ (pc # "enter" /\ Ends(cfg, EnteredIteration, get_time(initial_state(cfg.physics), 0))) =>
              /\ steps = << >>
              /\ \A j \in 1..Len(log) : ~Scheduled(j)
              /\ pc \notin {"exact", "step", "nearest"}

\* a restarted session that finds the iteration cap reached on entry, with
\* raw time short of t_final: it has ended without a step or an output
Wit_C14_CapReachedOnEntry ==
    /\ session = 2 /\ pc = "done"
    /\ cfg.driver.max_iter > 0 /\ EnteredIteration >= cfg.driver.max_iter
    /\ get_time(state, 0) < cfg.driver.t_final /\ get_time(state, 0) > 0
    /\ steps = << >> /\ log = << >>

StepBudget == IF cfg.driver.max_iter > EnteredIteration
              THEN cfg.driver.max_iter - EnteredIteration ELSE 0

\* C15: a session with max_iter > 0 never takes more than
\* max_iter - (the iteration it was entered with) steps, and every session
\* that is entered ends, normally or in an error; every step size of the
\* model is at least one tick of Courant time and t_final is finite.
Thm_C15_LoopTerminates ==
    /\ []((pc # "harness" /\ cfg.driver.max_iter > 0) => Len(steps) <= StepBudget)
    /\ (pc = "enter") ~> (pc \in {"done", "error"})

\* a restarted session that used its whole step budget, and one uncapped
\* run's end are both ends of the loop; this is the capped one
Wit_C15_BudgetUsedAfterRestart ==
    /\ session = 2 /\ pc = "done"
    /\ cfg.driver.max_iter > 0 /\ EnteredIteration > 0
    /\ Len(steps) > 0 /\ Len(steps) = StepBudget

EulerCalls(calls) == Cardinality({k \in 1..Len(calls) : calls[k].fn = "euler_step"})

\* C16: for every state s0 and step dt, the integrator of order 1 returns
\* advance(s0, dt), that of order 2 blend(s0, advance(advance(s0, dt), dt), 1/2)
\* and that of order 3
\* blend(s0, advance(blend(s0, advance(advance(s0, dt), dt), 1/4), dt), 2/3);
\* they call advance 1, 2 and 3 times, every blend is given the unmodified
\* s0 as its first state, and the value returned is that of the last call.
Thm_C16_IntegratorsAreTheCompositions ==
    (pc = "rk" /\ call.done /\ err = "none") =>
        LET s0 == call.s0
            dt == call.dt
            ph == cfg.physics
            order == cfg.driver.rk_order
            ss2 == euler_step(ph, euler_step(ph, s0, dt), dt)
        IN  /\ order \in {1, 2, 3}
            /\ order = 1 => call.out = euler_step(ph, s0, dt)
            /\ order = 2 => call.out = average(s0, ss2, 1, 2)
            /\ order = 3 =>
                  call.out = average(s0, euler_step(ph, average(s0, ss2, 1, 4), dt), 2, 3)
            /\ EulerCalls(call.calls) = order
            /\ call.calls[Len(call.calls)].out = call.out
            /\ call.calls[1].a = s0
            /\ \A k \in 1..Len(call.calls) :
                  call.calls[k].fn = "average" => call.calls[k].a = s0

\* a third-order step whose two averages round nothing away
Wit_C16_ThirdOrderStep ==
    /\ pc = "rk" /\ call.done /\ cfg.driver.rk_order = 3
    /\ Len(call.calls) = 5
    /\ call.out.time = call.s0.time + call.dt
    /\ call.out.u # call.calls[1].out.u

\* sum_i (index_i - start_i) * prod_{j>i} shape_j, in the integers
RECURSIVE RowMajor(_, _, _)
RowMajor(space, index, i) ==
    IF i > Rank(space) THEN 0
    ELSE (index[i] - space._start[i]) * ElementCount(space, i + 1)
         + RowMajor(space, index, i + 1)

\* C17 as stated: for a space with positive extents and an index inside it,
\* ndoffset is the row-major offset, lies in [0, size(space)) and is undone
\* by ndindex; for k < size(space), ndoffset(space, ndindex(space, k)) = k.
Cex_C17_OffsetWithinSize ==
    (pc = "nd" /\ call.done) =>
        /\ call.fn = "ndoffset" =>
              /\ call.offset = RowMajor(call.space, call.index, 1)
              /\ 0 <= call.offset /\ call.offset < size(call.space)
              /\ call.back = call.index
        /\ (call.fn = "ndindex" /\ call.offset < size(call.space)) =>
              call.back = call.offset

\* the text of the call was read back as it was written, with the names asked
\* for being the ones it was written with
ReadBack == pc = "archive" /\ call.done /\ ~call.edited

\* the number of elements of every vector of a value, in field order
RECURSIVE ElementCounts(_, _)
ElementCounts(fields, value) ==
    IF fields = << >> THEN << >>
    ELSE LET type == Head(fields).type
             v == Head(value)
             RECURSIVE of_elements(_)
             of_elements(i) ==
                 IF i > Len(v) THEN << >>
                 ELSE ElementCounts(type.fields, v[i]) \o of_elements(i + 1)
             here == CASE type.kind \in {"vec", "vector"} -> <<Len(v)>>
                       [] type.kind = "structs" -> <<Len(v)>> \o of_elements(1)
                       [] type.kind = "struct"  -> ElementCounts(type.fields, v)
                       [] OTHER -> << >>
         IN  here \o ElementCounts(Tail(fields), Tail(value))

\* C18: a value built from int scalars, fixed-size vectors, vectors of
\* scalars, nested structs and vectors of structs, written by serialize to an
\* ascii_writer and read by deserialize from an ascii_reader over that text
\* with the same names in the same order, is read without an error and is
\* equal to the value written, every vector has the number of elements it was
\* written with, and the reader stands just after the last character of the
\* value (only the line end the writer puts after it is left), outside every
\* group.
Thm_C18_AsciiRoundTrip ==
    (ReadBack /\ call.asked = call.fields) =>
        /\ ok(call.reader)
        /\ call.result = call.value
        /\ ElementCounts(call.asked, call.result) = ElementCounts(call.fields, call.value)
        /\ SubSeq(call.text, call.reader.pos, Len(call.text)) = <<"\n">>
        /\ call.reader.current_group_ = << >>
        /\ call.reader.group_stack_ = << >>

\* a struct that holds a negative scalar, a nested struct and a vector of two
\* structs has been written and read back
Wit_C18_NestedDocumentReadBack ==
    /\ ReadBack
    /\ call.asked = call.fields
    /\ call.fields = <<Field(<<"s">>, StructT(simulation_state_t))>>
    /\ call.value[1][1] = -3
    /\ Len(call.value[1][3]) = 2
    /\ call.result = call.value

\* the names a document puts into its text, in the order they are written
RECURSIVE Names(_, _)
Names(fields, value) ==
    IF fields = << >> THEN << >>
    ELSE LET type == Head(fields).type
             v == Head(value)
             RECURSIVE of_elements(_)
             of_elements(i) ==
                 IF i > Len(v) THEN << >>
                 ELSE Names(type.fields, v[i]) \o of_elements(i + 1)
             inner == CASE type.kind = "structs" -> of_elements(1)
                        [] type.kind = "struct"  -> Names(type.fields, v)
                        [] OTHER -> << >>
         IN  <<Head(fields).name>> \o inner \o Names(Tail(fields), Tail(value))

\* C19: deserialization is strict.  When a written text is read with a field
\* list that asks, at some point, for a name that is not the next item of the
\* text (a field or group renamed, missing, not asked for, or out of order),
\* the read ends with an error.  A read that reports success has met every
\* name it asked for as the next item of the text: the names asked for are
\* the names of the text from its first item on, in order and with none
\* passed over, and the values loaded are the values written under them.
Thm_C19_DeserializationIsStrict ==
    (ReadBack /\ ok(call.reader)) =>
        LET asked == Names(call.asked, call.result)
            written == Names(call.fields, call.value)
        IN  /\ Len(asked) <= Len(written)
            /\ asked = SubSeq(written, 1, Len(asked))
            /\ Len(call.result) = Len(call.asked)
            /\ call.result = SubSeq(call.value, 1, Len(call.asked))

\* two fields were asked for in the other order than they were written in,
\* and the read ended at the first of them with the name-mismatch error
Wit_C19_OutOfOrderFieldRaises ==
    /\ ReadBack
    /\ Len(call.fields) = 2
    /\ call.asked = <<call.fields[2], call.fields[1]>>
    /\ call.reader.err.what = "Expected field"
    /\ call.reader.err.expected = call.fields[2].name
    /\ call.reader.err.found = call.fields[1].name
    /\ call.reader.pos <= Len(call.fields[1].name) + 1

\* the read of the call ended with an exception
ReadFailed == pc = "archive" /\ call.done /\ ~ok(call.reader)

\* C20: every error raised by the archive reader identifies both the field
\* the failed read was asked for and the enclosing group path: its message
\* quotes the requested name and ends with the group path.  (Only the
\* name-mismatch messages quote the requested name; the delimiter, identifier
\* and value messages give the group path alone, and the "Expected ',' or
\* ']'" message of the vector read gives neither.)
Cex_C20_ErrorNamesFieldAndGroup ==
    ReadFailed =>
        /\ call.reader.err.what \in {"Expected field", "Expected group"}
        /\ call.reader.err.expected = call.reader.reading
        /\ call.reader.err.in_group
        /\ call.reader.err.group = call.reader.current_group_

\* the context a fresh run starts its loop with when the steady clock stands
\* still at 0: first-run scheduling, then the three t=0 outputs
RefEntry(c) ==
    LET ds0 == [driver_state_t EXCEPT
                   !.next_message_time = c.driver.message_interval,
                   !.next_checkpoint_time = c.driver.checkpoint_interval,
                   !.next_products_time = c.driver.products_interval,
                   !.next_timeseries_time = c.driver.timeseries_interval]
        x0  == [ds |-> ds0, lmi |-> 0, lmw |-> 0, wall_now |-> 0,
                log |-> << >>, chkpt |-> << >>, prods |-> << >>, err |-> "none"]
        s0  == initial_state(c.physics)
        x2  == callback(c, x0, CHECKPOINT, "initial", s0, -1)
        x3  == callback(c, x2, PRODUCTS, "initial", s0, -1)
    IN  callback(c, x3, TIMESERIES, "initial", s0, -1)

\* the context and the state of that run after n iterations of its loop
RECURSIVE RefRun(_, _)
RefRun(c, n) ==
    IF n = 0 THEN [x |-> RefEntry(c), s |-> initial_state(c.physics)]
    ELSE LET r  == RefRun(c, n - 1)
             t0 == get_time(r.s, 0)
             dt == c.driver.cfl * courant_time(c.physics, r.s)
             e1 == handle_exact_output(c, r.x, 1, t0, t0 + dt, r.s)
             e2 == handle_exact_output(c, e1, 2, t0, t0 + dt, r.s)
             e3 == handle_exact_output(c, e2, 3, t0, t0 + dt, r.s)
             e4 == handle_exact_output(c, e3, 4, t0, t0 + dt, r.s)
             s1 == rk_step(c, r.s, dt)
             x5 == [e4 EXCEPT !.ds.iteration = @ + 1]
             n1 == handle_nearest_output(c, x5, 1, s1)
             n2 == handle_nearest_output(c, n1, 2, s1)
             n3 == handle_nearest_output(c, n2, 3, s1)
         IN  [x |-> handle_nearest_output(c, n3, 4, s1), s |-> s1]

\* the log without the throughput figures of its messages
WithoutThroughput(events) ==
    [j \in 1..Len(events) |-> [events[j] EXCEPT !.mzps = 0]]

\* C21: whatever the steady clock reads when run() starts and at each message,
\* a fresh run is, between the iterations of its loop and at its end, where
\* the run of the same configuration under a clock that stands still is
\* after as many steps: the same state, the same driver state, the same
\* callback invocations with the same arguments in the same order, the same
\* files and the same last_message_iteration.  The readings reach only
\* last_message_wall_time and the throughput figure of a message.
Thm_C21_WallClockIsObservational ==
    (Fresh /\ pc \in {"loop", "done"}) =>
        LET r == RefRun(cfg, Len(steps))
        IN  /\ state = r.s
            /\ driver_state = r.x.ds
            /\ WithoutThroughput(log) = r.x.log
            /\ chkpt = r.x.chkpt
            /\ prods = r.x.prods
            /\ last_message_iteration = r.x.lmi

\* a finished run whose clock advanced before one message and stood still
\* before a later one
Wit_C21_ClockAdvancedThenStood ==
    /\ Fresh /\ pc = "done"
    /\ last_message_wall_time > 0
    /\ \E j, k \in 1..Len(log) :
          /\ j < k
          /\ log[j].chan = MESSAGE /\ log[j].mzps > 0
          /\ log[k].chan = MESSAGE /\ log[k].mzps = 0

\* the firings of channel i in the current iteration's phase of the given
\* kind; the exact phase sees the iteration before its increment
PhaseFirings(i, how) ==
    {j \in 1..Len(log) : /\ log[j].chan = i
                         /\ log[j].how = how
                         /\ log[j].ds.iteration = driver_state.iteration}

\* the next_time channel i entered that phase with
NextTimeBefore(i, how) ==
    IF PhaseFirings(i, how) = {}
    THEN driver_state[outputs(cfg)[i].next_time]
    ELSE log[CHOOSE j \in PhaseFirings(i, how) : TRUE].trig

AfterNearestPhase == pc = "loop" /\ steps # << >>

\* the driver state as the last callback invoked before the current nearest
\* phase saw it (a fresh run has invoked the t=0 callbacks by then)
SeenBeforeNearestPhase ==
    LET earlier == {j \in 1..Len(log) :
                        ~(log[j].how = "nearest" /\ log[j].ds.iteration = driver_state.iteration)}
    IN  log[CHOOSE j \in earlier : \A m \in earlier : m <= j].ds

\* C23: after the nearest evaluation of a step, a channel has fired in it if
\* and only if its policy is nearest and the post-step state's time in the
\* channel's time kind is >= the next_time it had; the callback then got
\* the post-step state, with count one higher and next_time one interval
\* later; a nearest channel that did not fire has the count and the
\* next_time it had before the evaluation.
Thm_C23_NearestEvaluation ==
    (Fresh /\ AfterNearestPhase) =>
        \A i \in Channels :
            LET out == outputs(cfg)[i]
            IN  /\ (   PhaseFirings(i, "nearest") # {}
                   <=> (   out.policy = "nearest"
                        /\ get_time(state, out.interval_kind) >= NextTimeBefore(i, "nearest"))   )
                /\ \A j \in PhaseFirings(i, "nearest") :
                      /\ log[j].state = state
                      /\ log[j].ds[out.count] = SeenBeforeNearestPhase[out.count] + 1
                      /\ log[j].ds[out.next_time] = SeenBeforeNearestPhase[out.next_time] + out.interval
                      /\ log[j].trig = SeenBeforeNearestPhase[out.next_time]
                      /\ driver_state[out.count] = log[j].ds[out.count]
                      /\ driver_state[out.next_time] = log[j].ds[out.next_time]
                /\ PhaseFirings(i, "nearest") = {} =>
                      /\ driver_state[out.count] = SeenBeforeNearestPhase[out.count]
                      /\ driver_state[out.next_time] = SeenBeforeNearestPhase[out.next_time]

\* a nearest channel on the auxiliary clock fired although the raw time is
\* short of its next_time, and another nearest channel did not fire
Wit_C23_FiredOnAuxiliaryClock ==
    /\ Fresh /\ AfterNearestPhase
    /\ \E i, k \in Channels :
          /\ outputs(cfg)[i].interval_kind = 1
          /\ PhaseFirings(i, "nearest") # {}
          /\ get_time(state, 0) < NextTimeBefore(i, "nearest")
          /\ outputs(cfg)[k].policy = "nearest" /\ PhaseFirings(k, "nearest") = {}

\* the loop iteration of this session in which the scheduled firing log[j]
\* was made: the exact phase sees the iteration count before its increment
IterationOf(j) ==
    log[j].ds.iteration - EnteredIteration + (IF log[j].how = "exact" THEN 1 ELSE 0)

\* the nearest evaluation of iteration n of this session has been completed
NearestPhaseDone(n) ==
    \/ Len(steps) > n
    \/ (Len(steps) = n /\ pc \in {"loop", "done"})

\* C24: no channel fires twice in one loop iteration, the two evaluation
\* phases taken together; an exact firing is of an exact-policy channel and
\* a nearest firing of a nearest-policy channel; and a nearest channel
\* that is still behind the time of the state it fired with (the step
\* spanned more than one interval) fires again in the nearest evaluation
\* of the following iteration, if there is one.
Thm_C24_OneFiringPerIteration ==
    pc # "harness" =>
        \A j \in 1..Len(log) :
            Scheduled(j) =>
                LET out == outputs(cfg)[log[j].chan]
                IN  /\ \A m \in (j + 1)..Len(log) :
                          log[m].chan = log[j].chan => IterationOf(m) # IterationOf(j)
                    /\ log[j].how = out.policy
                    /\ (   log[j].how = "nearest"
                        /\ log[j].ds[out.next_time] <= get_time(log[j].state, out.interval_kind)
                        /\ NearestPhaseDone(IterationOf(j) + 1)   ) =>
                           \E m \in (j + 1)..Len(log) :
                               /\ log[m].chan = log[j].chan
                               /\ log[m].how = "nearest"
                               /\ IterationOf(m) = IterationOf(j) + 1

\* a nearest channel fired after a step that spanned two of its intervals,
\* once, and fired again after the following step
Wit_C24_CatchesUpStepByStep ==
    /\ Fresh
    /\ \E j, m \in 1..Len(log) :
          /\ log[j].how = "nearest" /\ log[m].how = "nearest"
          /\ log[j].chan = log[m].chan
          /\ IterationOf(m) = IterationOf(j) + 1
          /\ outputs(cfg)[log[j].chan].interval_kind = 0
          /\ steps[IterationOf(j)].dt >= 2 * outputs(cfg)[log[j].chan].interval
          /\ log[j].ds[outputs(cfg)[log[j].chan].next_time] <= get_time(log[j].state, 0)

\* the steps of the session whose span holds the raw time of the state that
\* the callback of log[j] was given: (t0, t1] for a state interpolated in an
\* exact evaluation, t1 itself for a post-step state
StepsHolding(j) ==
    {k \in 1..Len(steps) :
        IF log[j].how = "exact"
        THEN /\ steps[k].t0 < get_time(log[j].state, 0)
             /\ get_time(log[j].state, 0) <= steps[k].t0 + steps[k].dt
        ELSE get_time(log[j].state, 0) = steps[k].t0 + steps[k].dt}

StepOf(j) == CHOOSE k \in StepsHolding(j) : TRUE

\* log[j] comes before log[m] in the order: iteration, then exact before
\* nearest, then message, checkpoint, products, timeseries
OrderedBefore(j, m) ==
    \/ StepOf(j) < StepOf(m)
    \/ /\ StepOf(j) = StepOf(m)
       /\ \/ log[j].how = "exact" /\ log[m].how = "nearest"
          \/ log[j].how = log[m].how /\ log[j].chan < log[m].chan

\* C25: between the iterations of a fresh run (its end is the last of these
\* states), every scheduled callback invocation belongs to one step k of the
\* run.  An
\* exact one was given the state before step k advanced by next_time - t0
\* and saw iteration k - 1; a nearest one was given the state after step k,
\* which is the state before it advanced by the full dt, and saw iteration
\* k.  The invocations were made in the order: step by step, within a step
\* the exact ones before the nearest ones, within a phase message,
\* checkpoint, products, timeseries.  The iteration count is the number of
\* steps taken.  (The order is a lexicographic one, so it holds of the whole
\* log when it holds of every two neighbours.)
Thm_C25_OrderWithinIteration ==
    (Fresh /\ pc = "loop") =>
        /\ driver_state.iteration = Len(steps)
        /\ state = RefState(cfg, Len(steps))
        /\ \A j \in 1..Len(log) :
              Scheduled(j) =>
                  /\ Cardinality(StepsHolding(j)) = 1
                  /\ LET k   == StepOf(j)
                         pre == RefState(cfg, k - 1)
                     IN  /\ steps[k].t0 = get_time(pre, 0)
                         /\ IF log[j].how = "exact"
                            THEN /\ log[j].state = rk_step(cfg, pre, log[j].trig - steps[k].t0)
                                 /\ log[j].ds.iteration = k - 1
                            ELSE /\ log[j].state = rk_step(cfg, pre, steps[k].dt)
                                 /\ log[j].state = RefState(cfg, k)
                                 /\ log[j].ds.iteration = k
                  /\ j < Len(log) => OrderedBefore(j, j + 1)

\* four invocations in one iteration: products and timeseries in the exact
\* phase, the later output time first, then message and checkpoint in the
\* nearest phase
Wit_C25_FourFiringsInOneIteration ==
    /\ Fresh /\ pc = "loop"
    /\ \E j \in 1..(Len(log) - 3) :
          /\ <<log[j].chan, log[j + 1].chan, log[j + 2].chan, log[j + 3].chan>>
                = <<PRODUCTS, TIMESERIES, MESSAGE, CHECKPOINT>>
          /\ <<log[j].how, log[j + 1].how, log[j + 2].how, log[j + 3].how>>
                = <<"exact", "exact", "nearest", "nearest">>
          /\ log[j].trig > log[j + 1].trig
          /\ log[j + 1].ds.iteration + 1 = log[j + 2].ds.iteration

\* the number of scheduled firings of channel i among the first n invocations
FiringsBefore(i, n) ==
    Cardinality({m \in 1..(n - 1) : log[m].chan = i /\ Scheduled(m)})

\* C26: after the exact evaluation of a step of a fresh run, the real state
\* is still the pre-step state (the state after the steps taken so far, at
\* raw time t0), every channel that fired was given that state advanced by
\* its own next_time - t0, and what each callback saw of another channel is
\* the count and the next_time that channel's own firings had made: a
\* firing changes no other channel's count or next_time.
Thm_C26_ExactChannelsFireIndependently ==
    (Fresh /\ pc = "step") =>
        /\ state = RefState(cfg, Len(steps))
        /\ get_time(state, 0) = t0dt.t0
        /\ \A i \in Channels :
              \A j \in PhaseFirings(i, "exact") :
                  /\ log[j].state = rk_step(cfg, state, log[j].trig - t0dt.t0)
                  /\ get_time(log[j].state, 0) = log[j].trig
                  /\ \A k \in Channels \ {i} :
                        /\ log[j].ds[outputs(cfg)[k].count] = FiringsBefore(k, j)
                        /\ log[j].ds[outputs(cfg)[k].next_time]
                              = outputs(cfg)[k].interval * (FiringsBefore(k, j) + 1)
        /\ \A k \in Channels :
              /\ driver_state[outputs(cfg)[k].count] = Firings(k)
              /\ driver_state[outputs(cfg)[k].next_time] = outputs(cfg)[k].interval * (Firings(k) + 1)

\* two exact channels fired in the same step at different output times, the
\* one evaluated first at the later time
Wit_C26_TwoExactFiringsInOneStep ==
    /\ Fresh /\ pc = "step"
    /\ \E j \in PhaseFirings(PRODUCTS, "exact"), m \in PhaseFirings(TIMESERIES, "exact") :
          /\ j < m
          /\ log[j].trig > log[m].trig
          /\ log[j].state # log[m].state
          /\ log[m].ds.products_count = log[j].ds.products_count

\* the four next_times are the four configured intervals
NextTimesAreIntervals(ds) ==
    \A i \in Channels : ds[outputs(cfg)[i].next_time] = outputs(cfg)[i].interval

\* the three unconditional t=0 outputs have been made
InitialOutputsFired ==
    /\ Len(log) >= 3
    /\ \A j \in 1..3 : log[j].how = "initial"
    /\ 0 \in DOMAIN chkpt /\ 0 \in DOMAIN prods
    /\ driver_state.timeseries_data # << >>

\* C27 as stated: in a fresh run the t=0 checkpoint, product and timeseries
\* outputs are fired before the four specs are validated, so they have been
\* fired when validation is about to run and when it has failed.
Cex_C27_InitialOutputsBeforeValidation ==
    (Fresh /\ (pc = "validate" \/ (pc = "error" /\ err = "validate"))) =>
        /\ NextTimesAreIntervals(driver_state)
        /\ InitialOutputsFired

\* C27 amended: in a fresh run every next_time is set to its interval first,
\* then the four specs are validated, and only then are the t=0 checkpoint,
\* product and timeseries outputs fired: when validation is about to run or
\* has failed the next_times are set and no callback has run and no file
\* exists, and a run that has called a callback has passed validation.
Thm_C27_ValidationBeforeInitialOutputs ==
    Fresh =>
        /\ (pc = "validate" \/ (pc = "error" /\ err = "validate")) =>
              /\ NextTimesAreIntervals(driver_state)
              /\ log = << >> /\ chkpt = << >> /\ prods = << >>
              /\ driver_state.timeseries_data = << >>
        /\ (pc = "initial" \/ log # << >>) => ~InvalidSchedule(cfg)
        /\ (pc = "loop" /\ steps = << >>) =>
              /\ InitialOutputsFired
              /\ \A j \in 1..3 : NextTimesAreIntervals(log[j].ds)

\* a run of a valid configuration that is about to validate, its next_times
\* set and nothing written yet
Wit_C27_ScheduledButNothingFired ==
    /\ Fresh /\ pc = "validate" /\ ~InvalidSchedule(cfg)
    /\ NextTimesAreIntervals(driver_state)
    /\ log = << >> /\ chkpt = << >>

\* C28 as stated: in a fresh run every next_time is its interval in every
\* state from the t=0 outputs on until the first step is taken.
Cex_C28_IntervalsUntilFirstStep ==
    (Fresh /\ pc \notin {"enter", "validate"} /\ steps = << >>) =>
        NextTimesAreIntervals(driver_state)

\* C28 amended: in a fresh run every next_time is its interval from the
\* first-run scheduling until the exact evaluation of the first loop
\* iteration: the t=0 callbacks see it so, the initial checkpoint records it
\* so, and no nearest firing is made with a state at raw time 0.  In the
\* first iteration, before the first step and with iteration still 0, an
\* exact channel that fires moves its next_time to twice its interval.
Thm_C28_IntervalsUntilFirstExactEvaluation ==
    Fresh =>
        /\ (   pc \in {"validate", "initial"}
            \/ (pc \in {"loop", "exact"} /\ steps = << >>)
            \/ (pc = "error" /\ err = "validate")   ) =>
               /\ driver_state.iteration = 0
               /\ NextTimesAreIntervals(driver_state)
        /\ \A j \in 1..Len(log) :
              log[j].how = "nearest" =>
                  get_time(log[j].state, 0) > 0 /\ log[j].ds.iteration > 0
        /\ (steps = << >> /\ pc \notin {"enter", "validate"}) =>
              /\ driver_state.iteration = 0
              /\ \A j \in 1..Len(log) :
                    log[j].how = "initial" =>
                        log[j].ds.iteration = 0 /\ NextTimesAreIntervals(log[j].ds)
              /\ 0 \in DOMAIN chkpt => NextTimesAreIntervals(chkpt[0].driver_state)
              /\ \A i \in Channels :
                    /\ driver_state[outputs(cfg)[i].next_time]
                          = outputs(cfg)[i].interval * (Firings(i) + 1)
                    /\ Firings(i) <= 1
                    /\ Firings(i) = 1 => outputs(cfg)[i].policy = "exact"

\* before the first step, with iteration 0, an exact checkpoint channel has
\* fired: the initial checkpoint records next_time = interval, the driver
\* state and the second checkpoint twice the interval
Wit_C28_ExactFiringAtIterationZero ==
    /\ Fresh /\ pc = "step" /\ steps = << >>
    /\ driver_state.iteration = 0
    /\ DOMAIN chkpt = {0, 1}
    /\ NextTimesAreIntervals(chkpt[0].driver_state)
    /\ chkpt[1].driver_state.iteration = 0
    /\ chkpt[1].driver_state.next_checkpoint_time = 2 * cfg.driver.checkpoint_interval

\* the loop of the session has ended on the time bound
EndedOnTimeBound == pc = "done" /\ get_time(state, 0) >= cfg.driver.t_final

\* C29: every real step of a fresh run, the last one included, starts at the
\* raw time of the state before it and has size exactly cfl times the
\* Courant time of that state, and moves the raw time on by that size,
\* whatever t_final and the channels' next_times are; when the loop has
\* ended on the time bound after at least one step, the last step started
\* before t_final and the final raw time, its start plus its full size, is
\* at or past t_final.
Thm_C29_StepSizeNeverAdjusted ==
    Fresh =>
        /\ \A k \in 1..Len(steps) :
              LET pre == RefState(cfg, k - 1)
              IN  /\ steps[k].t0 = get_time(pre, 0)
                  /\ steps[k].dt = cfg.driver.cfl * courant_time(cfg.physics, pre)
                  /\ get_time(RefState(cfg, k), 0) = steps[k].t0 + steps[k].dt
        /\ pc \in {"nearest", "loop", "done"} => state = RefState(cfg, Len(steps))
        /\ (EndedOnTimeBound /\ steps # << >>) =>
              /\ steps[Len(steps)].t0 < cfg.driver.t_final
              /\ get_time(state, 0) = steps[Len(steps)].t0 + steps[Len(steps)].dt
              /\ get_time(state, 0) >= cfg.driver.t_final

\* a run that has ended past t_final, whose last step passed over t_final
\* and over an exact output time without being shortened to either
Wit_C29_OvershootsTFinal ==
    /\ Fresh /\ EndedOnTimeBound
    /\ get_time(state, 0) > cfg.driver.t_final
    /\ \E j \in 1..Len(log) :
          /\ log[j].how = "exact"
          /\ steps[Len(steps)].t0 < log[j].trig
          /\ log[j].trig < cfg.driver.t_final
    /\ steps[Len(steps)].dt = cfg.driver.cfl * courant_time(cfg.physics, RefState(cfg, Len(steps) - 1))

\* the files the run has written, by base name and number: write_checkpoint
\* and write_products are the only places where the driver opens a file
FilesWritten ==
    {<<"chkpt", n>> : n \in DOMAIN chkpt} \cup {<<"prods", n>> : n \in DOMAIN prods}

\* C30 as stated: once the timeseries callback has been invoked, at t=0 or
\* at a scheduled sample, the run has written the timeseries file.
Cex_C30_TimeseriesFileWritten ==
    (Fresh /\ \E j \in 1..Len(log) : log[j].chan = TIMESERIES) =>
        \E f \in FilesWritten : f[1] = "timeseries"

\* C31 as stated: every message reports all the auxiliary time kinds of the
\* physics, 1..aux_kinds in increasing order: the probing stops only at the
\* first kind for which get_time throws.
Cex_C31_MessageReportsEveryKind ==
    pc # "harness" =>
        \A j \in 1..Len(log) :
            log[j].chan = MESSAGE =>
                log[j].kinds = [k \in 1..cfg.physics.aux_kinds |-> k]

\* the nearest-policy channels on a time kind the physics does not support
UnsupportedNearest ==
    {i \in Channels : /\ outputs(cfg)[i].policy = "nearest"
                      /\ outputs(cfg)[i].interval_kind \notin 0..cfg.physics.aux_kinds}

\* C32: a fresh run with a nearest-policy channel on a time kind the physics
\* does not support (and no exact channel on a kind other than 0) passes
\* validation and fires the t=0 outputs; if its loop begins, run is left by
\* the out-of-range error in the nearest evaluation of the first iteration:
\* one full step has been taken, iteration is 1, the nearest channels
\* before the first such channel in the order message, checkpoint, products,
\* timeseries have fired if they were due, and no later channel has been
\* evaluated.  No second iteration begins and the loop never ends normally
\* after a step.
Thm_C32_UnsupportedKindFailsAtFirstNearest ==
    (Fresh /\ UnsupportedNearest # {} /\ ~InvalidSchedule(cfg)) =>
        LET first == CHOOSE i \in UnsupportedNearest : \A k \in UnsupportedNearest : i <= k
        IN  /\ Len(steps) <= 1
            /\ pc \in {"loop", "exact", "step", "done"} => steps = << >> /\ Len(log) >= 3
            /\ pc = "error" =>
                  /\ err = "out_of_range"
                  /\ Len(steps) = 1 /\ driver_state.iteration = 1
                  /\ state = RefState(cfg, 1)
                  /\ InitialOutputsFired
                  /\ \A i \in Channels :
                        (\E j \in 1..Len(log) : log[j].chan = i /\ log[j].how = "nearest")
                        <=> (   i < first
                             /\ outputs(cfg)[i].policy = "nearest"
                             /\ get_time(state, outputs(cfg)[i].interval_kind)
                                   >= outputs(cfg)[i].interval)

\* the checkpoint channel is on an unsupported kind: the run was left in the
\* first nearest evaluation, after the message channel had fired for that
\* step and an exact channel had fired before the step
Wit_C32_FailsAfterEarlierChannelFired ==
    /\ Fresh /\ pc = "error" /\ err = "out_of_range"
    /\ UnsupportedNearest = {CHECKPOINT}
    /\ driver_state.iteration = 1
    /\ DOMAIN chkpt = {0}
    /\ \E j \in 1..Len(log) : log[j].chan = MESSAGE /\ log[j].how = "nearest"
    /\ \E j \in 1..Len(log) : log[j].how = "exact"

\* C33: in a fresh run, between the iterations of the loop and after it,
\* every channel has next_time = interval * (count + 1); and in every step
\* of run() after the first-run scheduling no count and no next_time
\* decreases, and a channel's count and next_time change only together,
\* the count by 1 and the next_time by the interval.
Thm_C33_NextTimeFollowsCount ==
    /\ []( (Fresh /\ pc \in {"loop", "done"}) =>
              \A i \in Channels :
                  driver_state[outputs(cfg)[i].next_time]
                      = outputs(cfg)[i].interval * (driver_state[outputs(cfg)[i].count] + 1) )
    /\ [][ (Fresh /\ pc # "enter") =>
              \A i \in Channels :
                  LET out == outputs(cfg)[i]
                  IN  \/ /\ driver_state'[out.count] = driver_state[out.count]
                         /\ driver_state'[out.next_time] = driver_state[out.next_time]
                      \/ /\ driver_state'[out.count] = driver_state[out.count] + 1
                         /\ driver_state'[out.next_time] = driver_state[out.next_time] + out.interval ]_vars

\* between two iterations a nearest channel has fired twice and is still
\* behind the raw time, and another channel has fired once
Wit_C33_CountsApart ==
    /\ Fresh /\ pc = "loop"
    /\ \E i, k \in Channels :
          /\ driver_state[outputs(cfg)[i].count] = 2
          /\ outputs(cfg)[i].policy = "nearest"
          /\ driver_state[outputs(cfg)[i].next_time] <= get_time(state, 0)
          /\ driver_state[outputs(cfg)[k].count] = 1

\* inside the loop of a session, the exact channel i has its next_time at or
\* behind the raw time of the real state
Stalled(i) ==
    /\ pc \in {"loop", "exact", "step", "nearest"}
    /\ ExactChannel(i)
    /\ driver_state[outputs(cfg)[i].next_time] <= get_time(state, 0)

\* C34: once an exact channel's next_time is at or behind the raw time of
\* the real state inside the loop (which is t0 at the start of the next
\* iteration), every further step of the session leaves the channel's count
\* and next_time as they are and the raw time where it is or later: the
\* channel does not fire again.  That is the case after a step in which the
\* channel fired and its advanced next_time is still <= t1.
Thm_C34_OverdueExactChannelIsDead ==
    /\ [][ \A i \in Channels :
              Stalled(i) =>
                  /\ driver_state'[outputs(cfg)[i].count] = driver_state[outputs(cfg)[i].count]
                  /\ driver_state'[outputs(cfg)[i].next_time] = driver_state[outputs(cfg)[i].next_time]
                  /\ get_time(state', 0) >= get_time(state, 0)
                  /\ Len(log') > Len(log) => log'[Len(log')].chan # i ]_vars
    /\ []( \A i \in Channels :
              (   pc = "loop" /\ steps # << >>
               /\ \E j \in PhaseFirings(i, "exact") :
                      log[j].ds[outputs(cfg)[i].next_time]
                          <= steps[Len(steps)].t0 + steps[Len(steps)].dt   )
              => Stalled(i) )

\* a second session entered from a checkpoint of a later iteration, in
\* which an exact channel had fired once in a step spanning two of its
\* intervals (count 1, next_time twice the interval) and is restored with
\* that next_time not ahead of the starting raw time: the session has taken
\* a step and ended, and the channel did not fire in it
Wit_C34_DeadOnEntryAfterLongStep ==
    /\ session = 2 /\ pc = "done" /\ steps # << >>
    /\ EnteredIteration >= 1
    /\ \E i \in Channels :
          /\ ExactChannel(i)
          /\ EventsOf(i) = << >>
          /\ driver_state[outputs(cfg)[i].count] = 1
          /\ driver_state[outputs(cfg)[i].next_time] = 2 * outputs(cfg)[i].interval
          /\ driver_state[outputs(cfg)[i].next_time] <= steps[1].t0

\* log[j] and log[m] are callbacks of the same phase of the same iteration
SamePhase(j, m) ==
    log[j].how = log[m].how /\ log[j].ds.iteration = log[m].ds.iteration

\* what a firing of the kind how adds to the count and next_time of channel i
\* (the t=0 pass calls the callback only)
FiringAdds(i, how) ==
    IF how = "initial" THEN [count |-> 0, next_time |-> 0]
    ELSE [count |-> 1, next_time |-> outputs(cfg)[i].interval]

\* C35: the driver state a checkpoint callback persists is the one of that
\* moment of the phase: a message firing of the same phase of the same
\* iteration came before it and is in it, a products or timeseries firing of
\* the same phase comes after it, so the checkpoint holds that channel's
\* count and next_time from before the firing and a timeseries_data to which
\* the sample of that phase is yet to be appended; checkpoint 0 of a fresh
\* run holds an empty timeseries_data.
Thm_C35_CheckpointPrecedesProductsAndTimeseries ==
    /\ \A j \in 1..Len(log) :
          log[j].chan = CHECKPOINT =>
              /\ log[j].ds.checkpoint_count \in DOMAIN chkpt
              /\ chkpt[log[j].ds.checkpoint_count].driver_state = log[j].ds
              /\ \A m \in 1..Len(log) :
                    SamePhase(j, m) =>
                        /\ log[m].chan = MESSAGE =>
                              /\ m < j
                              /\ log[j].ds.message_count = log[m].ds.message_count
                              /\ log[j].ds.next_message_time = log[m].ds.next_message_time
                        /\ log[m].chan \in {PRODUCTS, TIMESERIES} =>
                              LET out == outputs(cfg)[log[m].chan]
                                  add == FiringAdds(log[m].chan, log[m].how)
                              IN  /\ m > j
                                  /\ log[m].ds[out.count] = log[j].ds[out.count] + add.count
                                  /\ log[m].ds[out.next_time]
                                         = log[j].ds[out.next_time] + add.next_time
                        /\ (log[m].chan = TIMESERIES /\ m = Len(log)) =>
                              driver_state.timeseries_data =
                                  accumulate_timeseries_sample(
                                      log[j].ds.timeseries_data,
                                      timeseries_sample(cfg.physics, log[m].state))
    /\ (Fresh /\ 0 \in DOMAIN chkpt /\ pc # "enter") =>
           chkpt[0].driver_state.timeseries_data = << >>

\* message, checkpoint and products fired in the nearest evaluation of one
\* iteration and timeseries fired together with the checkpoint at t=0
Wit_C35_CheckpointBetweenMessageAndProducts ==
    \E j, m, n, q, r \in 1..Len(log) :
        /\ log[j].chan = CHECKPOINT /\ log[j].how = "nearest"
        /\ log[m].chan = MESSAGE /\ SamePhase(j, m)
        /\ log[n].chan = PRODUCTS /\ SamePhase(j, n)
        /\ log[q].chan = CHECKPOINT /\ log[q].how = "initial"
        /\ log[r].chan = TIMESERIES /\ SamePhase(q, r)

\* the physics returns the same columns in every sample
ConstantColumns == cfg.physics.onset = 0

\* C36: in a fresh run whose samples always carry the same columns, after
\* the t=0 pass, between iterations and after the loop, timeseries_data has
\* the columns of a sample and each of them has timeseries_count + 1 values.
Thm_C36_ColumnsOneLongerThanCount ==
    (Fresh /\ ConstantColumns /\ pc \in {"loop", "done"}) =>
        /\ Len(driver_state.timeseries_data) = Len(timeseries_sample(cfg.physics, state))
        /\ \A k \in 1..Len(driver_state.timeseries_data) :
              /\ driver_state.timeseries_data[k][1] = timeseries_sample(cfg.physics, state)[k][1]
              /\ Len(driver_state.timeseries_data[k][2]) = driver_state.timeseries_count + 1

\* two scheduled timeseries firings after the t=0 sample: three columns of
\* three values
Wit_C36_ThreeValuesPerColumn ==
    /\ Fresh /\ ConstantColumns /\ pc = "loop"
    /\ driver_state.timeseries_count = 2
    /\ Len(driver_state.timeseries_data) = 3
    /\ \A k \in 1..3 : Len(driver_state.timeseries_data[k][2]) = 3

\* C37 as stated: whatever the order, the raw time returned is the double
\* t0 + dt.
Cex_C37_ReturnedTimeIsTheSum ==
    (pc = "fl" /\ call.done) => call.out = fl(call.t0 + call.dt)

\* C37: rk1_step returns the raw time t0 + dt as a double, the rounded sum;
\* rk2_step and rk3_step return a double within four units of 2^-MantissaBits
\* relative to the exact t0 + dt, which need not be the rounded sum.
Thm_C37_ReturnedTimeNearTheSum ==
    (pc = "fl" /\ call.done) =>
        LET exact == call.t0 + call.dt
            diff  == IF call.out >= exact THEN call.out - exact ELSE exact - call.out
        IN  /\ cfg.driver.rk_order = 1 => call.out = fl(exact)
            /\ diff * 2^MantissaBits <= 4 * exact

\* a third-order step from time 0 whose returned time is not the double dt
Wit_C37_ThirdOrderTimeOffTheSum ==
    /\ pc = "fl" /\ call.done /\ cfg.driver.rk_order = 3
    /\ call.t0 = 0
    /\ call.out # call.dt

\* the policy strings and time kinds as configured
ConfiguredSchedules(c) ==
    << <<c.driver.message_scheduling, c.driver.message_interval_kind>>,
       <<c.driver.checkpoint_scheduling, c.driver.checkpoint_interval_kind>>,
       <<c.driver.products_scheduling, c.driver.products_interval_kind>>,
       <<c.driver.timeseries_scheduling, c.driver.timeseries_interval_kind>> >>

\* a policy string that is neither "exact" nor "nearest", or the exact
\* policy on a time kind other than 0
ConfigurationError(c) ==
    \E i \in Channels :
        \/ ConfiguredSchedules(c)[i][1] \notin {"exact", "nearest"}
        \/ (ConfiguredSchedules(c)[i][1] = "exact" /\ ConfiguredSchedules(c)[i][2] # 0)

\* C38: a fresh run with a configuration error ends in that error before
\* anything else happens: iteration and the four counts are 0,
\* timeseries_data is empty, no callback has run and no file exists; the
\* four next_times are the configured intervals all the same.
Thm_C38_ConfigurationErrorLeavesIntervals ==
    (Fresh /\ ConfigurationError(cfg) /\ pc \notin {"enter", "validate"}) =>
        /\ pc = "error"
        /\ err \in {"scheduling_policy", "validate"}
        /\ driver_state.iteration = 0
        /\ driver_state.message_count = 0
        /\ driver_state.checkpoint_count = 0
        /\ driver_state.products_count = 0
        /\ driver_state.timeseries_count = 0
        /\ driver_state.timeseries_data = << >>
        /\ log = << >> /\ chkpt = << >> /\ prods = << >>
        /\ driver_state.next_message_time = cfg.driver.message_interval
        /\ driver_state.next_checkpoint_time = cfg.driver.checkpoint_interval
        /\ driver_state.next_products_time = cfg.driver.products_interval
        /\ driver_state.next_timeseries_time = cfg.driver.timeseries_interval

\* the run has stopped on a misspelt timeseries policy, the last channel
\* built, with the next_times set
Wit_C38_UnknownPolicyAfterScheduling ==
    /\ Fresh /\ pc = "error" /\ err = "scheduling_policy"
    /\ cfg.driver.timeseries_scheduling \notin {"exact", "nearest"}
    /\ driver_state.next_timeseries_time = cfg.driver.timeseries_interval
    /\ driver_state.next_timeseries_time > 0
    /\ driver_state.timeseries_count = 0

\* C39: a begin_group(name) that succeeds saves the path on the stack and
\* sets it to name at top level and to parent + "/" + name otherwise, a
\* begin_group() that succeeds saves it and appends "[]"; an end_group that
\* succeeds puts back the path and the depth of before the begin it closes,
\* whatever balanced calls came between, and with an empty stack leaves the
\* path and the empty stack as they are.
Thm_C39_GroupPathIsAStack ==
    (pc = "groups" /\ ok(call.reader) /\ call.op.kind # "none") =>
        LET r    == call.reader
            prev == call.prev
        IN  /\ call.op.kind = "begin_group" =>
                  /\ r.current_group_ =
                        IF prev.current_group_ = << >> THEN call.op.name
                        ELSE prev.current_group_ \o <<"/">> \o call.op.name
                  /\ r.group_stack_ = Append(prev.group_stack_, prev.current_group_)
            /\ call.op.kind = "begin_anonymous" =>
                  /\ r.current_group_ = prev.current_group_ \o <<"[", "]">>
                  /\ r.group_stack_ = Append(prev.group_stack_, prev.current_group_)
            /\ call.op.kind = "end_group" =>
                  IF prev.group_stack_ = << >>
                  THEN /\ r.current_group_ = prev.current_group_
                       /\ r.group_stack_ = << >>
                  ELSE /\ call.closed # << >>
                       /\ r.current_group_ = call.closed[1].path
                       /\ Len(r.group_stack_) = call.closed[1].depth
            /\ Len(r.group_stack_) = Len(call.open)

\* the end_group that closes group "a" after an anonymous group was opened
\* and closed inside it: the path is back at the top level, the stack empty
Wit_C39_NestedGroupsClosed ==
    /\ pc = "groups" /\ ok(call.reader)
    /\ call.op.kind = "end_group" /\ call.calls = 4
    /\ call.prev.current_group_ = <<"a">>
    /\ call.reader.current_group_ = << >>
    /\ call.reader.group_stack_ = << >>
    /\ call.closed # << >>

====
